---- MODULE Spec2Model ----
(***************************************************************************)
(* A model of the workflow engine of sample-self-rag:                      *)
(*   - the tiered session store   (src/src/services/redis_session.py)      *)
(*   - the router node            (src/src/core/router_agent.py)           *)
(*   - the configuration compiler (src/src/core/agent_factory.py,          *)
(*                                 src/src/core/workflow_builder.py)       *)
(*   - the orchestrator run       (src/src/orchestrator.py,                *)
(*                                 src/src/core/lifecycle_agents.py)       *)
(* Each part has its own specification over the module's variables; the    *)
(* variables of the other parts keep their initial value in it.            *)
(***************************************************************************)
EXTENDS Integers, Sequences, FiniteSets, TLC

VARIABLES
    \* ---- session store ----
    redis,      \* state key of each session id in the cache: payload and expiry
    history,    \* history key of each session id in the cache: event log and expiry
    db,         \* the durable store's sessions (when configured)
    dbEvents,   \* the append_event calls the durable store has received, in order
    dbOn,       \* self.db_service is set (a database_url was given)
    now,        \* the cache's clock
    ret,        \* what the last call did and returned
    appended,   \* the events append_event pushed to a history key, in call order
    reads       \* the times at which get_session returned each session

VARIABLES
    \* ---- execution of nodes ----
    session,    \* ctx.session.state
    order,      \* the keys of ctx.session.state in insertion order
    events,     \* the events yielded so far, in order
    executed,   \* the child nodes that have been run, in order
    \* ---- router node ----
    rCond,      \* RouterAgent.condition, as tokens
    rRoutes,    \* RouterAgent.routes: result key -> child node
    rpc,        \* where _run_async_impl is
    rSnap,      \* state: the snapshot of the session state taken on entry
    rKey,       \* result_key
    rSel,       \* selected_agent ("none" for None)
    rPending,   \* events of the selected child not yet forwarded
    rErr        \* the exception _run_async_impl raised ("none" for none)

VARIABLES
    \* ---- orchestrator run ----
    runPc,          \* where WorkflowOrchestrator.run_async is
    runInit,        \* its argument initial_state
    stored,         \* what the session service holds under session_id
    defExit,        \* config.workflow.lifecycle.exit of the definition
    finalResponse,  \* final_response, as lines
    \* ---- configuration compiler ----
    cAgents,    \* config.agents: name, type and the names it refers to
    cRoot,      \* config.workflow.agents
    cpc,        \* where WorkflowBuilder.build is
    cIdx,       \* position of build's loop over config.agents
    cStack,     \* the create_agent calls in progress, innermost last
    created,    \* AgentFactory._created_agents: name -> instance
    instances,  \* the agent objects constructed so far; an instance is its index
    rootSubs,   \* sub_agents of the root workflow agent
    cErr        \* the exception build raised ("none" for none)

VARIABLES
    \* ---- execution of a root workflow over leaf nodes ----
    wf,         \* config.workflow: type, agents, max_iterations
    nodes,      \* the declared leaf nodes: name -> configuration
    fIter,      \* iterations of the root workflow completed
    fDone,      \* members that have run in the current iteration
    calls,      \* the callbacks invoked so far, in order
    invoked,    \* the calls made to tool callables and remote endpoints, in order
    \* ---- exit node ----
    exitAgent,  \* the fields of an ExitAgent instance
    \* ---- scoped state ----
    sm          \* the state manager's stores

VARIABLES
    \* ---- two callers of append_event on one session ----
    callers,    \* caller -> where it is in append_event, and its locals
    writes,     \* the writes made to the state key, in order
    \* ---- a node run inside its context wrapper ----
    wpc,        \* where ContextWrapperAgent._run_async_impl is
    registry    \* CallbackRegistry._callbacks: name -> what the callback does

VARIABLES
    \* ---- loop counter nodes ----
    loop,       \* loop_index_key of the two agents, and the exception raised
    \* ---- tool nodes in the branches of a parallel root ----
    branches    \* branch -> where its tool node is, and its locals

storeVars == <<redis, history, db, dbEvents, dbOn, now, ret, appended>>

execVars == <<session, order, events, executed>>

routerVars == <<rCond, rRoutes, rpc, rSnap, rKey, rSel, rPending, rErr>>

runVars == <<runPc, runInit, stored, defExit, finalResponse>>

compVars == <<cAgents, cRoot, cpc, cIdx, cStack, created, instances, rootSubs, cErr>>

\* the variables of the other parts
flowVars == <<wf, nodes, fIter, fDone, calls, invoked>>

\* the parts that take no step in the store, router, run and compiler models
raceVars == <<callers, writes>>

wrapVars == <<wpc, registry>>

lateVars == <<loop, branches>>

moreVars == <<raceVars, wrapVars, lateVars>>

restVars == <<flowVars, exitAgent, sm, moreVars>>

otherVars == <<execVars, routerVars, runVars, compVars, restVars>>

nonStoreVars == <<reads, otherVars>>

nonRouterVars == <<storeVars, reads, runVars, compVars, restVars>>

nonRunVars == <<storeVars, reads, compVars, restVars>>

nonCompVars == <<storeVars, reads, execVars, routerVars, runVars, restVars>>

vars == <<storeVars, reads, execVars, routerVars, runVars, compVars, restVars>>

(***************************************************************************)
(* Bounds of the model.                                                    *)
(***************************************************************************)
TTL == 5          \* self.ttl, in clock ticks
MaxTime == 7      \* the clock stops here
MaxEvents == 2    \* append_event calls in one behaviour

Sessions == {"s1", "s2"}
Users == {"u1"}
Keys == {"k1", "k2"}
Vals == {"v1", "v2"}

(***************************************************************************)
(* State maps (dict[str, Any]) are functions from a set of keys.           *)
(***************************************************************************)
EmptyState == [k \in {} |-> "v1"]

StateMaps == UNION {[K -> Vals] : K \in SUBSET Keys}

\* dict.update(delta)
DictUpdate(st, d) ==
    [k \in (DOMAIN st) \cup (DOMAIN d) |-> IF k \in DOMAIN d THEN d[k] ELSE st[k]]

\* every key of d maps in st to the value d gives it
Contains(st, d) == \A k \in DOMAIN d : k \in DOMAIN st /\ st[k] = d[k]

(***************************************************************************)
(* The parts at rest: no node is executing.                                *)
(***************************************************************************)
ExecIdle == session = EmptyState /\ order = <<>> /\ events = <<>> /\ executed = <<>>

RouterIdle ==
    /\ rCond = <<>> /\ rRoutes = EmptyState /\ rpc = "idle" /\ rSnap = EmptyState
    /\ rKey = "" /\ rSel = "none" /\ rPending = <<>> /\ rErr = "none"

RunIdle ==
    /\ runPc = "idle" /\ runInit = EmptyState /\ finalResponse = <<>>
    /\ stored = [present |-> FALSE, state |-> EmptyState, order |-> <<>>]
    /\ defExit = [emit_full_state |-> FALSE, output_keys |-> <<>>]

CompIdle ==
    /\ cAgents = <<>> /\ cRoot = <<>> /\ cpc = "idle" /\ cIdx = 1 /\ cStack = <<>>
    /\ created = EmptyState /\ instances = <<>> /\ rootSubs = <<>> /\ cErr = "none"

FlowIdle ==
    /\ wf = [type |-> "sequential", agents |-> <<>>, max_iterations |-> 0]
    /\ nodes = EmptyState /\ fIter = 0 /\ fDone = {} /\ calls = <<>> /\ invoked = <<>>

ExitIdle == exitAgent = [emit_full_state |-> FALSE, output_key |-> "none", output_keys |-> <<>>]

\* the four stores of the state manager, in the order a read resolves them;
\* the model has one node, one session, one user and one process, so each
\* scope has one instance
Scopes == <<"agent", "workflow", "user", "global">>

NoStores == [s \in {"agent", "workflow", "user", "global"} |-> EmptyState]

ScopeIdle == sm = NoStores

Callers == {"c1", "c2"}

\* a caller that has not called: pc, and the locals of append_event
IdleCaller ==
    [pc |-> "idle", shape |-> "none", ev |-> [id |-> 0, delta |-> EmptyState],
     obj |-> EmptyState, data |-> [kind |-> "none", user |-> "-", state |-> EmptyState, exp |-> 0]]

RaceIdle == callers = [c \in Callers |-> IdleCaller] /\ writes = <<>>

WrapIdle == wpc = "idle" /\ registry = EmptyState

LateIdle == loop = [key |-> "none", err |-> "none"] /\ branches = <<>>

MoreIdle == RaceIdle /\ WrapIdle /\ LateIdle

RestIdle == FlowIdle /\ ExitIdle /\ ScopeIdle /\ MoreIdle

OthersIdle == ExecIdle /\ RouterIdle /\ RunIdle /\ CompIdle /\ RestIdle

(***************************************************************************)
(* The cache.  A key holds a payload and the time it expires at; a key     *)
(* whose time has come is gone.                                            *)
(***************************************************************************)
NoKey == [kind |-> "none", user |-> "-", state |-> EmptyState, exp |-> 0]
NoHistory == [events |-> <<>>, exp |-> 0]
NoSession == [present |-> FALSE, user |-> "-", state |-> EmptyState]

\* json.dumps(data) of a session's id, user_id, app_name and state
JsonDumps(user, state) == [kind |-> "json", user |-> user, state |-> state]

\* json.loads(data) succeeds
JsonLoadsOk(entry) == entry.kind = "json"

\* self.client.get(key): the value, when the key is there and has not expired
ClientGet(s) == IF redis[s].kind # "none" /\ now < redis[s].exp THEN redis[s] ELSE NoKey

\* self.client.setex(key, self.ttl, payload)
ClientSetex(cache, s, payload) ==
    [cache EXCEPT ![s] = [kind |-> payload.kind, user |-> payload.user,
                          state |-> payload.state, exp |-> now + TTL]]

\* self.client.expire(key, self.ttl)
ClientExpire(cache, s) == [cache EXCEPT ![s].exp = now + TTL]

\* _save_to_redis(session)
save_to_redis(cache, s, user, state) == ClientSetex(cache, s, JsonDumps(user, state))

(***************************************************************************)
(* What a call did and returned.  kind: "session", "none" (None) or "ok";  *)
(* src: the path the call took; delta, cached: an append_event's delta and *)
(* whether the state key was in the cache when it was called.              *)
(***************************************************************************)
Ret(op, s, kind, user, state, src, delta, cached) ==
    [op |-> op, sid |-> s, kind |-> kind, user |-> user, state |-> state,
     src |-> src, delta |-> delta, cached |-> cached]

NoRet == Ret("init", "-", "none", "-", EmptyState, "-", EmptyState, FALSE)

(***************************************************************************)
(* get_session                                                             *)
(***************************************************************************)
\* get_session without the read repair of line 78
get_session_redis_NoRepair(s) ==
    IF ClientGet(s).kind # "none" THEN ClientExpire(redis, s) ELSE redis

\* get_session without the TTL reset of line 59
get_session_redis_NoExpire(s) ==
    IF ClientGet(s).kind # "none"
    THEN redis
    ELSE IF dbOn /\ db[s].present
         THEN save_to_redis(redis, s, db[s].user, db[s].state)
         ELSE redis

\* the cache after get_session(.., s): a hit resets the TTL, a miss that the
\* durable store answers repopulates the cache (read repair)
get_session_redis(s) ==
    IF ClientGet(s).kind # "none"
    THEN ClientExpire(redis, s)
    ELSE IF dbOn /\ db[s].present
         THEN save_to_redis(redis, s, db[s].user, db[s].state)
         ELSE redis

\* a hit is answered only to the user the snapshot was saved for
get_session_ret_Owner(u, s) ==
    LET data == ClientGet(s) IN
    IF data.kind # "none"
    THEN IF JsonLoadsOk(data) /\ data.user = u
         THEN Ret("get", s, "session", u, data.state, "cache", EmptyState, TRUE)
         ELSE Ret("get", s, "none", "-", EmptyState, "corrupt", EmptyState, TRUE)
    ELSE IF dbOn /\ db[s].present
         THEN Ret("get", s, "session", db[s].user, db[s].state, "db", EmptyState, FALSE)
         ELSE Ret("get", s, "none", "-", EmptyState, "miss", EmptyState, FALSE)

\* what get_session(app, u, s) returns
get_session_ret(u, s) ==
    LET data == ClientGet(s) IN
    IF data.kind # "none"
    THEN IF JsonLoadsOk(data)
         THEN Ret("get", s, "session", u, data.state, "cache", EmptyState, TRUE)
         ELSE Ret("get", s, "none", "-", EmptyState, "corrupt", EmptyState, TRUE)
    ELSE IF dbOn /\ db[s].present
         THEN Ret("get", s, "session", db[s].user, db[s].state, "db", EmptyState, FALSE)
         ELSE Ret("get", s, "none", "-", EmptyState, "miss", EmptyState, FALSE)

get_session(u, s) ==
    /\ redis' = get_session_redis(s)
    /\ ret' = get_session_ret(u, s)
    /\ UNCHANGED <<history, db, dbEvents, dbOn, now, appended, otherVars>>

(***************************************************************************)
(* create_session                                                          *)
(***************************************************************************)
\* self.db_service.create_session(app, user, session_id)
db_create_session(u, s) ==
    IF dbOn /\ ~db[s].present
    THEN [db EXCEPT ![s] = [present |-> TRUE, user |-> u, state |-> EmptyState]]
    ELSE db

\* a snapshot that is in the cache is kept
create_session_IfAbsent(u, s) ==
    /\ redis' = IF ClientGet(s).kind # "none" THEN redis
                ELSE save_to_redis(redis, s, u, EmptyState)
    /\ db' = db_create_session(u, s)
    /\ ret' = Ret("create", s, "session", u, EmptyState, "new", EmptyState,
                  ClientGet(s).kind # "none")
    /\ UNCHANGED <<history, dbEvents, dbOn, now, appended>>
    /\ UNCHANGED nonStoreVars

create_session(u, s) ==
    /\ redis' = save_to_redis(redis, s, u, EmptyState)
    /\ db' = db_create_session(u, s)
    /\ ret' = Ret("create", s, "session", u, EmptyState, "new", EmptyState,
                  ClientGet(s).kind # "none")
    /\ UNCHANGED <<history, dbEvents, dbOn, now, appended>>
    /\ UNCHANGED nonStoreVars

(***************************************************************************)
(* delete_session                                                          *)
(***************************************************************************)
delete_session(s) ==
    /\ redis' = [redis EXCEPT ![s] = NoKey]
    /\ db' = IF dbOn THEN [db EXCEPT ![s] = NoSession] ELSE db
    /\ ret' = Ret("delete", s, "ok", "-", EmptyState, "-", EmptyState,
                  ClientGet(s).kind # "none")
    /\ UNCHANGED <<history, dbEvents, dbOn, now, appended>>
    /\ UNCHANGED nonStoreVars

(***************************************************************************)
(* append_event.  shape is how the caller names the session:               *)
(* "id" (session_id), "session" (the session= object, whose state is obj)  *)
(* or "none" (neither).                                                    *)
(***************************************************************************)
\* a history write that replaces the list instead of pushing onto it
append_event_history_Overwrite(s, ev) ==
    [history EXCEPT ![s] = [events |-> <<ev>>, exp |-> now + TTL]]

\* history_key: rpush the serialized event, then expire(history_key, ttl)
append_event_history(s, ev) ==
    LET old == IF now < history[s].exp THEN history[s].events ELSE <<>> IN
    [history EXCEPT ![s] = [events |-> Append(old, ev), exp |-> now + TTL]]

\* a missing snapshot is created from the event's state_delta
append_event_redis_Creates(shape, s, u, ev, obj) ==
    IF shape = "session"
    THEN ClientSetex(redis, s, JsonDumps(u, obj))
    ELSE LET data == ClientGet(s) IN
         IF data.kind # "none" /\ JsonLoadsOk(data) /\ ev.delta # EmptyState
         THEN ClientSetex(redis, s, JsonDumps(data.user, DictUpdate(data.state, ev.delta)))
         ELSE IF data.kind = "none" /\ ev.delta # EmptyState
         THEN ClientSetex(redis, s, JsonDumps(u, ev.delta))
         ELSE redis

\* the state key: overwritten from the session object when one is given,
\* else read, merged with the event's state_delta and written back
append_event_redis(shape, s, u, ev, obj) ==
    IF shape = "session"
    THEN ClientSetex(redis, s, JsonDumps(u, obj))
    ELSE LET data == ClientGet(s) IN
         IF data.kind # "none" /\ JsonLoadsOk(data) /\ ev.delta # EmptyState
         THEN ClientSetex(redis, s, JsonDumps(data.user, DictUpdate(data.state, ev.delta)))
         ELSE redis

\* the forward moved into the branch that found the snapshot in the cache
append_event_forwards_IfCached(shape, s) == dbOn /\ ClientGet(s).kind # "none"

\* self.db_service is set: the call is forwarded
append_event_forwards(shape, s) == dbOn

\* self.db_service.append_event(session_id, event, **kwargs): the durable
\* store logs the event and applies its delta to the session it holds
db_append_event(s, ev) ==
    IF db[s].present
    THEN [db EXCEPT ![s].state = DictUpdate(db[s].state, ev.delta)]
    ELSE db

append_event(shape, s, u, ev, obj) ==
    /\ Len(appended) < MaxEvents
    /\ IF shape = "none"
       THEN /\ ret' = Ret("append", "-", "ok", "-", EmptyState, "noid", ev.delta, FALSE)
            /\ UNCHANGED <<redis, history, db, dbEvents, appended>>
       ELSE /\ history' = append_event_history(s, ev)
            /\ appended' = Append(appended, [sid |-> s, ev |-> ev])
            /\ redis' = append_event_redis(shape, s, u, ev, obj)
            /\ IF append_event_forwards(shape, s)
               THEN /\ dbEvents' = Append(dbEvents, [sid |-> s, ev |-> ev])
                    /\ db' = db_append_event(s, ev)
               ELSE UNCHANGED <<db, dbEvents>>
            /\ ret' = Ret("append", s, "ok", "-", EmptyState, shape, ev.delta,
                          ClientGet(s).kind # "none")
    /\ UNCHANGED <<dbOn, now>>
    /\ UNCHANGED nonStoreVars

(***************************************************************************)
(* The environment: time passes (keys whose TTL has run out are gone), and *)
(* a cached payload is damaged.                                            *)
(***************************************************************************)
Tick(d) ==
    /\ now + d <= MaxTime
    /\ now' = now + d
    /\ redis' = [s \in Sessions |-> IF redis[s].exp <= now + d THEN NoKey ELSE redis[s]]
    /\ history' = [s \in Sessions |->
                     IF history[s].exp <= now + d THEN NoHistory ELSE history[s]]
    /\ ret' = Ret("tick", "-", "ok", "-", EmptyState, "-", EmptyState, FALSE)
    /\ UNCHANGED <<db, dbEvents, dbOn, appended>>
    /\ UNCHANGED nonStoreVars

Corrupt(s) ==
    /\ ClientGet(s).kind = "json"
    /\ redis' = [redis EXCEPT ![s].kind = "garbage"]
    /\ ret' = Ret("corrupt", s, "ok", "-", EmptyState, "-", EmptyState, TRUE)
    /\ UNCHANGED <<history, db, dbEvents, dbOn, now, appended>>
    /\ UNCHANGED nonStoreVars

(***************************************************************************)
(* The session store: the service is constructed with or without a         *)
(* database_url, over an empty cache and an empty durable store.           *)
(***************************************************************************)
\* the events a caller appends: the n-th event of a behaviour, with its delta
Deltas == {EmptyState, [k \in {"k1"} |-> "v1"],
           [k \in {"k1", "k2"} |-> IF k = "k1" THEN "v2" ELSE "v1"]}

Event(d) == [id |-> Len(appended) + 1, delta |-> d]

\* the state of the in-memory session object a caller passes with an event of
\* delta d: the state the session was read with, with or without the delta
\* applied to it by the node that made the event
SessionObjects(s, d) ==
    LET read == get_session_ret("u1", s).state IN {read, DictUpdate(read, d)}

StoreInit ==
    /\ redis = [s \in Sessions |-> NoKey]
    /\ history = [s \in Sessions |-> NoHistory]
    /\ db = [s \in Sessions |-> NoSession]
    /\ dbEvents = <<>>
    /\ now = 0
    /\ ret = NoRet
    /\ appended = <<>>
    /\ reads = [s \in Sessions |-> {}]

(***************************************************************************)
(* Spec: the calls of the session store, with or without a durable store,  *)
(* and the TTL running out between calls.                                  *)
(***************************************************************************)
Init == StoreInit /\ dbOn \in BOOLEAN /\ OthersIdle

Next ==
    \/ \E u \in Users, s \in Sessions : get_session(u, s) /\ UNCHANGED reads
    \/ \E u \in Users, s \in Sessions : create_session(u, s)
    \/ \E s \in Sessions : delete_session(s)
    \/ \E s \in Sessions, u \in Users, d \in Deltas :
          \/ append_event("id", s, u, Event(d), EmptyState)
          \/ \E st \in SessionObjects(s, d) : append_event("session", s, u, Event(d), st)
          \/ append_event("none", s, u, Event(d), EmptyState)
    \/ Tick(TTL)

Spec == Init /\ [][Next]_vars

(***************************************************************************)
(* SpecCorrupt: the same store, whose cached payloads may be damaged.      *)
(***************************************************************************)
NextCorrupt ==
    \/ \E u \in Users, s \in Sessions : get_session(u, s) /\ UNCHANGED reads
    \/ \E u \in Users, s \in Sessions : create_session(u, s)
    \/ \E s \in Sessions, u \in Users, d \in Deltas :
          append_event("id", s, u, Event(d), EmptyState)
    \/ \E s \in Sessions : Corrupt(s)

SpecCorrupt == Init /\ [][NextCorrupt]_vars

(***************************************************************************)
(* SpecTTL: the cache alone (no database_url), with the clock advancing    *)
(* one tick at a time; reads records when each session was returned.       *)
(***************************************************************************)
LogRead(s) ==
    reads' = IF ret'.kind = "session" THEN [reads EXCEPT ![s] = @ \cup {now}] ELSE reads

InitTTL == StoreInit /\ dbOn = FALSE /\ OthersIdle

NextTTL ==
    \/ \E u \in Users : get_session(u, "s1") /\ LogRead("s1")
    \/ \E u \in Users : create_session(u, "s1")
    \/ \E u \in Users, d \in {EmptyState, [k \in {"k1"} |-> "v1"]} :
          append_event("id", "s1", u, Event(d), EmptyState)
    \/ Tick(1)

SpecTTL == InitTTL /\ [][NextTTL]_vars

(***************************************************************************)
(*                             The router node                             *)
(*                                                                         *)
(* Values of the session state are integers, floats (in tenths), strings   *)
(* and booleans; a name that the state does not hold may still be a Python *)
(* builtin.                                                                *)
(***************************************************************************)
Val(ty, n, s) == [ty |-> ty, n |-> n, s |-> s]
Num(n) == Val("num", n, "")
Float(t) == Val("float", t, "")
Str(s) == Val("str", 0, s)
None == Val("none", 0, "")
Bool(b) == Val("bool", IF b THEN 1 ELSE 0, "")
BuiltinObj(name) == Val("builtin", 0, name)
SetOf(v) == Val("set", v.n, v.s)

\* the numeric types, and a numeric value in tenths
Numeric == {"num", "float", "bool"}

Tenths(v) == IF v.ty = "float" THEN v.n ELSE 10 * v.n

\* the names eval finds in __builtins__ once globals ({}) has been searched
Builtins == {"type", "id", "input"}

\* the keys of the model, in the order used where Python's order is that of
\* a dict literal
AllKeys == <<"score", "x", "type", "document", "metadata", "a_out", "b_out">>

OrderOf(K) == LET In(k) == k \in K IN SelectSeq(AllKeys, In)

\* the key order of a dict after dict.update(delta)
DictOrder(ord, st, d) ==
    LET New(k) == k \in DOMAIN d /\ k \notin DOMAIN st IN ord \o SelectSeq(AllKeys, New)

\* the condition string, as tokens: "{x}" is Ph("x"), "x" is Id("x")
Tok(t, name, n) == [t |-> t, name |-> name, n |-> n]
Ph(name) == Tok("ph", name, 0)
Id(name) == Tok("id", name, 0)
Op(sym) == Tok("op", sym, 0)
NumLit(n) == Tok("num", "", n)
FloatLit(t) == Tok("float", "", t)
StrLit(s) == Tok("str", s, 0)

\* re.sub(r'\{(\w+)\}', r'\1', self.condition) left out: the braces stay
clean_condition_NoStrip(cond) == cond

\* re.sub(r'\{(\w+)\}', r'\1', self.condition)
clean_condition(cond) ==
    [i \in 1..Len(cond) |-> IF cond[i].t = "ph" THEN Id(cond[i].name) ELSE cond[i]]

\* the result of evaluating an expression: a value, or the exception raised
Ok(v) == [err |-> "none", v |-> v]
Raise(e) == [err |-> e, v |-> Num(0)]

\* a name: locals (the state), then globals ({}), then the builtins
PyName(name, state) ==
    IF name \in DOMAIN state THEN Ok(state[name])
    ELSE IF name \in Builtins THEN Ok(BuiltinObj(name))
    ELSE Raise("NameError")

\* an operand; braces that were not stripped make a set display
PyOperand(tok, state) ==
    CASE tok.t = "id" -> PyName(tok.name, state)
      [] tok.t = "ph" -> LET r == PyName(tok.name, state) IN
                         IF r.err = "none" THEN Ok(SetOf(r.v)) ELSE r
      [] tok.t = "num" -> Ok(Num(tok.n))
      [] tok.t = "float" -> Ok(Float(tok.n))
      [] tok.t = "str" -> Ok(Str(tok.name))
      [] OTHER -> Raise("SyntaxError")

\* the strings of the model, in Python's (lexicographic) order
StrOrder == <<"A", "B", "doc", "hello", "pdf", "true">>

StrRank(s) == CHOOSE i \in 1..Len(StrOrder) : StrOrder[i] = s

\* l > r: numbers (and booleans) compare, strings compare with strings
PyGt(l, r) ==
    IF l.ty \in Numeric /\ r.ty \in Numeric THEN Ok(Bool(Tenths(l) > Tenths(r)))
    ELSE IF l.ty = "str" /\ r.ty = "str" THEN Ok(Bool(StrRank(l.s) > StrRank(r.s)))
    ELSE Raise("TypeError")

\* l == r never raises
PyEq(l, r) ==
    IF l.ty \in Numeric /\ r.ty \in Numeric THEN Ok(Bool(Tenths(l) = Tenths(r)))
    ELSE Ok(Bool(l = r))

\* eval(clean_condition, {}, state)
PyEval(toks, state) ==
    IF Len(toks) = 1 THEN PyOperand(toks[1], state)
    ELSE IF Len(toks) = 3 /\ toks[2].t = "op"
         THEN LET l == PyOperand(toks[1], state)
                  r == PyOperand(toks[3], state)
              IN  IF l.err # "none" THEN l
                  ELSE IF r.err # "none" THEN r
                  ELSE IF toks[2].name = ">" THEN PyGt(l.v, r.v)
                  ELSE PyEq(l.v, r.v)
         ELSE Raise("SyntaxError")

\* repr of a float given in tenths
FloatStr(t) == ToString(t \div 10) \o "." \o ToString(t % 10)

\* str(result)
PyStr(v) ==
    CASE v.ty = "bool" -> IF v.n = 1 THEN "True" ELSE "False"
      [] v.ty = "str" -> v.s
      [] v.ty = "num" -> ToString(v.n)
      [] v.ty = "float" -> FloatStr(v.n)
      [] v.ty = "none" -> "None"
      [] OTHER -> "<object>"

\* _evaluate_condition(state): the key, or ValueError for any exception
evaluate_condition(cond, state) ==
    LET r == PyEval(clean_condition(cond), state) IN
    IF r.err = "none" THEN [raised |-> FALSE, key |-> PyStr(r.v)]
    ELSE [raised |-> TRUE, key |-> ""]

\* self.routes.get(key)
RoutesGet(routes, key) == IF key \in DOMAIN routes THEN routes[key] ELSE "none"

\* an unmatched key falls back to the "False" route
select_agent_FallBack(routes, key) ==
    IF RoutesGet(routes, key) # "none" THEN RoutesGet(routes, key)
    ELSE RoutesGet(routes, "False")

\* selected_agent: the route of the key, else for "True"/"False" the route of
\* "true"/"false" (a str-keyed table holds no key True or False)
select_agent(routes, key) ==
    IF RoutesGet(routes, key) # "none" THEN RoutesGet(routes, key)
    ELSE IF key = "True" THEN RoutesGet(routes, "true")
    ELSE IF key = "False" THEN RoutesGet(routes, "false")
    ELSE "none"

\* an event: its author, its kind, its text as lines, the route keys a
\* diagnostic lists, and its state delta
Ev(author, kind, text, keys, delta) ==
    [author |-> author, kind |-> kind, text |-> text, keys |-> keys, delta |-> delta]

\* error_msg, up to the list of route keys
MissText(key) == "No route found for result '" \o key \o "'"

\* the event of lines 108-115
router_miss_event(key, routes) ==
    Ev("router", "diag", <<MissText(key)>>, DOMAIN routes, EmptyState)

\* the events a child node yields when it is run, each with the delta the
\* child writes to the session
Children == {"A", "B"}

ChildEvents(c) ==
    IF c = "A"
    THEN <<Ev("A", "text", <<"A1">>, {}, EmptyState),
           Ev("A", "text", <<"A2">>, {}, [k \in {"a_out"} |-> Str("A")])>>
    ELSE <<Ev(c, "text", <<"B1">>, {}, [k \in {"b_out"} |-> Str("B")])>>

\* lines 87-103: snapshot, evaluate, select
RouterEvaluate ==
    /\ rpc = "start"
    /\ rSnap' = session
    /\ LET r == evaluate_condition(rCond, session) IN
       IF r.raised
       THEN /\ rpc' = "raised"
            /\ rErr' = "ValueError"
            /\ UNCHANGED <<rKey, rSel>>
       ELSE /\ rKey' = r.key
            /\ rSel' = select_agent(rRoutes, r.key)
            /\ rpc' = IF select_agent(rRoutes, r.key) = "none" THEN "miss" ELSE "dispatch"
            /\ UNCHANGED rErr
    /\ UNCHANGED <<rCond, rRoutes, rPending, execVars>>
    /\ UNCHANGED nonRouterVars

\* lines 104-116: no route; one diagnostic event, then return
RouterMiss ==
    /\ rpc = "miss"
    /\ events' = Append(events, router_miss_event(rKey, rRoutes))
    /\ rpc' = "done"
    /\ UNCHANGED <<session, order, executed, rCond, rRoutes, rSnap, rKey, rSel, rPending, rErr>>
    /\ UNCHANGED nonRouterVars

\* line 133: the selected child is run
RouterDispatch ==
    /\ rpc = "dispatch"
    /\ executed' = Append(executed, rSel)
    /\ rPending' = ChildEvents(rSel)
    /\ rpc' = "forward"
    /\ UNCHANGED <<session, order, events, rCond, rRoutes, rSnap, rKey, rSel, rErr>>
    /\ UNCHANGED nonRouterVars

\* the router yields the event under its own name
forwarded_Reauthored(event) == [event EXCEPT !.author = "router"]

\* line 138: yield event
forwarded(event) == event

\* lines 133-138: the child's next event (the child has written its delta to
\* the session) is yielded as it is
RouterForward ==
    /\ rpc = "forward"
    /\ rPending # <<>>
    /\ session' = DictUpdate(session, Head(rPending).delta)
    /\ order' = DictOrder(order, session, Head(rPending).delta)
    /\ events' = Append(events, forwarded(Head(rPending)))
    /\ rPending' = Tail(rPending)
    /\ UNCHANGED <<executed, rCond, rRoutes, rpc, rSnap, rKey, rSel, rErr>>
    /\ UNCHANGED nonRouterVars

\* the child's stream has ended: the router returns
RouterReturn ==
    /\ rpc = "forward"
    /\ rPending = <<>>
    /\ rpc' = "done"
    /\ UNCHANGED <<execVars, rCond, rRoutes, rSnap, rKey, rSel, rPending, rErr>>
    /\ UNCHANGED nonRouterVars

(***************************************************************************)
(* SpecRouter: one invocation of a router, for each condition, route table *)
(* and session state of the sets below.                                    *)
(***************************************************************************)
CondGtPh == <<Ph("x"), Op(">"), NumLit(5)>>          \* "{x} > 5"
CondGtId == <<Id("x"), Op(">"), NumLit(5)>>          \* "x > 5"
CondVar == <<Ph("x")>>                               \* "{x}"
CondBad == <<Ph("x"), Op(">")>>                      \* "{x} >"
CondEqType == <<Ph("type"), Op("=="), StrLit("pdf")>> \* "{type} == 'pdf'"

Conditions == {CondGtPh, CondGtId, CondVar, CondBad, CondEqType}

Route(k1, c1, k2, c2) == [k \in {k1, k2} |-> IF k = k1 THEN c1 ELSE c2]

RouteTables ==
    {Route("True", "A", "False", "B"), Route("true", "A", "false", "B"),
     Route("True", "A", "True", "A"), Route("hello", "A", "False", "B"),
     Route("True", "B", "false", "A")}

XValues == {Num(3), Num(5), Num(6), Num(10), Float(48), Float(52), Str("hello"), Str("true")}

RouterStates ==
    {[k \in {} |-> Num(0)]}
    \cup {[k \in {"x"} |-> v] : v \in XValues}
    \cup {[k \in {"x", "type"} |-> IF k = "x" THEN v ELSE Str("pdf")] : v \in XValues}
    \cup {[k \in {"type"} |-> Str("doc")]}

InitRouter ==
    /\ StoreInit /\ dbOn = FALSE
    /\ RunIdle /\ CompIdle /\ RestIdle
    /\ session \in RouterStates
    /\ order = OrderOf(DOMAIN session)
    /\ events = <<>>
    /\ executed = <<>>
    /\ rCond \in Conditions
    /\ rRoutes \in RouteTables
    /\ rpc = "start"
    /\ rSnap = EmptyState
    /\ rKey = ""
    /\ rSel = "none"
    /\ rPending = <<>>
    /\ rErr = "none"

NextRouter ==
    \/ RouterEvaluate
    \/ RouterMiss
    \/ RouterDispatch
    \/ RouterForward
    \/ RouterReturn

SpecRouter == InitRouter /\ [][NextRouter]_vars

(***************************************************************************)
(*                      Properties of the session store                    *)
(***************************************************************************)

\* what a get_session for session s would return right now
GetNow(s) == get_session_ret("u1", s)

\* C1: create(s) followed immediately by get(s) returns a session with empty
\* state; append_event for a cached session s with an event of state-delta d,
\* followed immediately by get(s), returns a state in which every key of d has
\* the value d gives it.
C1_CreateAppendThenGet ==
    /\ ret.op = "create" =>
          GetNow(ret.sid).kind = "session" /\ GetNow(ret.sid).state = EmptyState
    /\ (ret.op = "append" /\ ret.src # "noid" /\ ret.cached) =>
          GetNow(ret.sid).kind = "session" /\ Contains(GetNow(ret.sid).state, ret.delta)

\* C3: a get that hits the cache returns the cached session; a get that misses
\* the cache and hits the durable store returns the durable session and has
\* repopulated the cache, so the next get of that id is a cache hit with the
\* same state; a get that misses both returns absent.
C3_GetStep ==
    ret'.op = "get" =>
        LET s == ret'.sid
            data == ClientGet(s)
        IN  IF data.kind = "json"
            THEN ret'.kind = "session" /\ ret'.state = data.state
            ELSE IF dbOn /\ db[s].present
                 THEN /\ ret'.kind = "session" /\ ret'.state = db[s].state
                      /\ redis'[s].kind = "json" /\ redis'[s].state = db[s].state
                      /\ now' < redis'[s].exp
                 ELSE ret'.kind = "none" /\ redis'[s] = redis[s]

C3_NextGetHits ==
    (ret.op = "get" /\ ret.src = "db") =>
        GetNow(ret.sid).src = "cache" /\ GetNow(ret.sid).state = ret.state

C3_GetProtocol == [][C3_GetStep]_vars /\ []C3_NextGetHits

\* a read repair of a session whose state is not empty
C3_Witness == ret.op = "get" /\ ret.src = "db" /\ ret.state # EmptyState

\* C5: with a durable store configured, the durable store has received every
\* event that append_event pushed to the cache's log, in call order, by the
\* time each call has returned.
C5_WriteThrough == dbOn => dbEvents = appended

\* two events forwarded, the last for a session whose state key was not cached
C5_Witness ==
    dbOn /\ Len(dbEvents) >= 2 /\ ret.op = "append" /\ ret.src = "id" /\ ~ret.cached

\* C6: when the cached payload cannot be decoded, get behaves as on a cache
\* miss: it returns the durable session if the durable store has one, else
\* absent.
C6_CorruptIsMiss ==
    (ret.op = "get" /\ ret.src = "corrupt") =>
        IF dbOn /\ db[ret.sid].present
        THEN ret.kind = "session" /\ ret.state = db[ret.sid].state
        ELSE ret.kind = "none"

\* C4: with no durable store, a session read at time T and read again no
\* earlier than T + 0.5 TTL is still retrievable at every time up to
\* T + 1.2 TTL: each successful get resets the TTL to its full value.
C4_Refreshed(s, t1, t2) ==
    /\ 2 * (t2 - t1) >= TTL
    /\ t2 <= now
    /\ 10 * (now - t1) <= 12 * TTL

C4_TTLRefresh ==
    \A s \in Sessions : \A t1 \in reads[s] : \A t2 \in reads[s] :
        C4_Refreshed(s, t1, t2) => GetNow(s).kind = "session"

\* read at T and at T + 0.5 TTL or later, and retrievable after T + TTL
C4_Witness ==
    \E s \in Sessions : \E t1 \in reads[s] : \E t2 \in reads[s] :
        C4_Refreshed(s, t1, t2) /\ now > t1 + TTL /\ GetNow(s).kind = "session"


(***************************************************************************)
(*                        Properties of the router                         *)
(***************************************************************************)
\* the router has evaluated its condition (and has not raised)
Evaluated == rpc \in {"miss", "dispatch", "forward", "done"}

IsNumber(state, name) == name \in DOMAIN state /\ state[name].ty \in {"num", "float"}

\* C7: for the condition "{x} > 5" and a state snapshot with a number x, the
\* evaluation does not raise, the key is "True" when x > 5 and "False" when
\* x <= 5, and when the table has a route under that key, that route is the
\* selected child and the only child that is executed.
C7_RouterSelection ==
    (rCond = CondGtPh /\ rpc # "start" /\ IsNumber(rSnap, "x")) =>
        /\ Evaluated
        /\ Tenths(rSnap["x"]) > 50 => rKey = "True"
        /\ Tenths(rSnap["x"]) <= 50 => rKey = "False"
        /\ rKey \in DOMAIN rRoutes =>
              /\ rSel = rRoutes[rKey]
              /\ rpc \in {"dispatch", "forward", "done"}
              /\ rpc # "dispatch" => executed = <<rRoutes[rKey]>>

C7_Witness ==
    /\ rCond = CondGtPh /\ rpc = "done" /\ IsNumber(rSnap, "x")
    /\ rSnap["x"] = Num(10) /\ rKey = "True"
    /\ rRoutes = Route("True", "A", "False", "B")
    /\ executed = <<"A">>

\* the names a condition refers to
NamesOf(cond) == {cond[i].name : i \in {j \in 1..Len(cond) : cond[j].t \in {"ph", "id"}}}

\* an operand, or operand operator operand
WellFormed(cond) ==
    \/ Len(cond) = 1 /\ cond[1].t # "op"
    \/ Len(cond) = 3 /\ cond[1].t # "op" /\ cond[2].t = "op" /\ cond[3].t # "op"

EvalMustFail(cond, state) == ~WellFormed(cond) \/ ~(NamesOf(cond) \subseteq DOMAIN state)

\* C8: when the condition is malformed or refers to a variable that the state
\* snapshot does not hold, the invocation ends with the error raised, no event
\* emitted and no child executed.
C8_EvalFailureFatal ==
    (rpc # "start" /\ EvalMustFail(rCond, rSnap)) =>
        /\ rpc = "raised"
        /\ rErr # "none"
        /\ events = <<>>
        /\ executed = <<>>

\* no route under the key, nor under its lower-case form for "True"/"False"
NoRoute(routes, key) ==
    /\ key \notin DOMAIN routes
    /\ key = "True" => "true" \notin DOMAIN routes
    /\ key = "False" => "false" \notin DOMAIN routes

\* C9: when no route resolves for the evaluated key, the router goes through
\* the miss branch only: it ends with exactly one event, the diagnostic that
\* names the key and the route keys, no child executed, the session state as
\* it was at the snapshot, and no error raised.
C9_RouterMiss ==
    (Evaluated /\ NoRoute(rRoutes, rKey)) =>
        /\ rpc \in {"miss", "done"}
        /\ rErr = "none"
        /\ rSel = "none"
        /\ executed = <<>>
        /\ session = rSnap
        /\ rpc = "miss" => events = <<>>
        /\ rpc = "done" =>
              /\ Len(events) = 1
              /\ events[1].kind = "diag"
              /\ events[1].author = "router"
              /\ events[1].text = <<"No route found for result '" \o rKey \o "'">>
              /\ events[1].keys = DOMAIN rRoutes

C9_Witness ==
    /\ rpc = "done" /\ NoRoute(rRoutes, rKey) /\ rKey = "True"
    /\ Len(events) = 1 /\ events[1].kind = "diag"

(***************************************************************************)
(*                          The orchestrator run                           *)
(***************************************************************************)
\* WorkflowBuilder.state_manager: set to None by __init__, assigned nowhere
state_manager == FALSE

\* StartAgent(name, initial_state) and ExitAgent(name, emit_full_state,
\* output_key, output_keys), by their constructor arguments
StartAgent(initial_state) == [initial_state |-> initial_state]

ExitAgent(emit_full_state, output_key, output_keys) ==
    [emit_full_state |-> emit_full_state, output_key |-> output_key,
     output_keys |-> output_keys]

\* the lifecycle wrapper: [StartAgent(), user_agent, ExitAgent()], whatever
\* the definition declares under workflow.lifecycle.exit
build_from_yaml(exitDecl) ==
    [start |-> StartAgent(EmptyState), exit |-> ExitAgent(FALSE, "none", <<>>)]

\* the members are run in the order [Exit, Start, user_agent]
lifecycle_sub_agents_ExitFirst == <<"exit", "start", "root">>

\* sub_agents of the lifecycle wrapper, a SequentialAgent: the Start node, the
\* user's root workflow agent, the Exit node
lifecycle_sub_agents == <<"start", "root", "exit">>

\* what the wrapper runs first, and what it runs after member m ("collect":
\* the wrapper has ended)
FirstMember == lifecycle_sub_agents[1]

MemberAfter(m) ==
    LET i == CHOOSE j \in 1..Len(lifecycle_sub_agents) : lifecycle_sub_agents[j] = m
    IN  IF i < Len(lifecycle_sub_agents) THEN lifecycle_sub_agents[i + 1] ELSE "collect"

\* json.dumps of a value
JsonValue(v) ==
    CASE v.ty = "bool" -> IF v.n = 1 THEN "true" ELSE "false"
      [] v.ty = "str" -> "\"" \o v.s \o "\""
      [] v.ty = "num" -> ToString(v.n)
      [] v.ty = "float" -> FloatStr(v.n)
      [] OTHER -> "\"<object>\""

\* one entry of json.dumps(state, indent=2)
JsonEntry(k, v) == "  \"" \o k \o "\": " \o JsonValue(v)

\* json.dumps(ctx.session.state, indent=2, default=str), line by line
json_dumps(state, ord) ==
    <<"{">> \o
    [i \in 1..Len(ord) |->
        JsonEntry(ord[i], state[ord[i]]) \o (IF i < Len(ord) THEN "," ELSE "")] \o
    <<"}">>

\* output_text of ExitAgent._run_async_impl
ExitOutput(cfg, state, ord) ==
    LET default == <<"Workflow execution completed.">>
        Held(k) == k \in DOMAIN state
        User(k) == k \notin {"document", "metadata"}
        found == SelectSeq(cfg.output_keys, Held)
        user_keys == SelectSeq(ord, User)
    IN  IF DOMAIN state = {} THEN default
        ELSE IF cfg.emit_full_state THEN json_dumps(state, ord)
        ELSE IF cfg.output_keys # <<>>
             THEN IF found # <<>> THEN <<PyStr(state[Head(found)])>> ELSE default
        ELSE IF cfg.output_key # "none"
             THEN IF Held(cfg.output_key) THEN <<PyStr(state[cfg.output_key])>> ELSE default
        ELSE IF user_keys # <<>>
             THEN <<PyStr(state[user_keys[Len(user_keys)]])>>
             ELSE default

\* lines 120-131: the session of session_id, created when there is none
RunGetOrCreate ==
    /\ runPc = "begin"
    /\ session' = IF stored.present THEN stored.state ELSE EmptyState
    /\ order' = IF stored.present THEN stored.order ELSE <<>>
    /\ stored' = [stored EXCEPT !.present = TRUE]
    /\ runPc' = "inject"
    /\ UNCHANGED <<events, executed, routerVars, runInit, defExit, finalResponse>>
    /\ UNCHANGED nonRunVars

\* get(scope_hint, key, session_id): the value of the first store, in the
\* order agent, workflow, user, global, that contains the key, whatever the
\* hint; None when no store contains it
sm_get(stores, scope_hint, key) ==
    LET Has(s) == key \in DOMAIN stores[s]
        found == SelectSeq(Scopes, Has)
    IN  IF found = <<>> THEN None ELSE stores[Head(found)][key]

\* set(scope, key, value, session_id): writes into the given scope only
sm_set(stores, scope, key, value) ==
    [stores EXCEPT ![scope] = DictUpdate(@, [k \in {key} |-> value])]

RECURSIVE SetEach(_, _, _)
\* lines 135-142: state_manager.set(scope="workflow", ...) for each item
SetEach(stores, ks, init) ==
    IF ks = <<>> THEN stores
    ELSE SetEach(sm_set(stores, "workflow", Head(ks), init[Head(ks)]), Tail(ks), init)

\* lines 134-148: initial_state goes into the workflow scope and into the
\* session only under a state manager
RunInject ==
    /\ runPc = "inject"
    /\ IF runInit # EmptyState /\ state_manager
       THEN /\ sm' = SetEach(sm, OrderOf(DOMAIN runInit), runInit)
            /\ session' = DictUpdate(session, runInit)
            /\ order' = DictOrder(order, session, runInit)
       ELSE UNCHANGED <<sm, session, order>>
    /\ runPc' = FirstMember
    /\ UNCHANGED <<events, executed, routerVars, runInit, stored, defExit, finalResponse>>
    /\ UNCHANGED <<storeVars, reads, compVars, flowVars, exitAgent, moreVars>>

\* StartAgent._run_async_impl of the wrapper's first member
RunStart ==
    /\ runPc = "start"
    /\ LET delta == build_from_yaml(defExit).start.initial_state IN
       /\ session' = DictUpdate(session, delta)
       /\ order' = DictOrder(order, session, delta)
       /\ events' = Append(events, Ev("workflow_start", "text",
                                      <<"Workflow execution started.">>, {}, delta))
    /\ runPc' = MemberAfter("start")
    /\ UNCHANGED <<executed, routerVars, runInit, stored, defExit, finalResponse>>
    /\ UNCHANGED nonRunVars

\* the wrapper's second member, the user's root workflow, runs its router
RunRoot ==
    /\ runPc = "root"
    /\ rpc = "idle"
    /\ rpc' = "start"
    /\ runPc' = "router"
    /\ UNCHANGED <<execVars, rCond, rRoutes, rSnap, rKey, rSel, rPending, rErr>>
    /\ UNCHANGED <<runInit, stored, defExit, finalResponse>>
    /\ UNCHANGED nonRunVars

\* the router has returned: the wrapper goes on to its last member
RunRootReturn ==
    /\ runPc = "router"
    /\ rpc = "done"
    /\ runPc' = MemberAfter("root")
    /\ UNCHANGED <<execVars, routerVars, runInit, stored, defExit, finalResponse>>
    /\ UNCHANGED nonRunVars

\* the router has raised: the exception leaves run_async
RunRootRaise ==
    /\ runPc = "router"
    /\ rpc = "raised"
    /\ runPc' = "failed"
    /\ UNCHANGED <<execVars, routerVars, runInit, stored, defExit, finalResponse>>
    /\ UNCHANGED nonRunVars

\* ExitAgent._run_async_impl of the wrapper's last member
RunExit ==
    /\ runPc = "exit"
    /\ events' = Append(events, Ev("workflow_exit", "text",
                    ExitOutput(build_from_yaml(defExit).exit, session, order),
                    {}, EmptyState))
    /\ runPc' = MemberAfter("exit")
    /\ UNCHANGED <<session, order, executed, routerVars, runInit, stored, defExit, finalResponse>>
    /\ UNCHANGED nonRunVars

\* lines 157-170: final_response is the text of the last event
RunCollect ==
    /\ runPc = "collect"
    /\ finalResponse' = events[Len(events)].text
    /\ stored' = [present |-> TRUE, state |-> session, order |-> order]
    /\ runPc' = "done"
    /\ UNCHANGED <<execVars, routerVars, runInit, defExit>>
    /\ UNCHANGED nonRunVars

(***************************************************************************)
(* SpecRun: one run_async call on a definition whose root workflow is one  *)
(* router over the nodes A and B, for each initial_state argument, each    *)
(* declared exit configuration and each content of the session service.    *)
(***************************************************************************)
CondScore == <<Ph("score"), Op(">"), FloatLit(5)>>     \* "{score}>0.5"

ScoreState(v) == [k \in {"score"} |-> v]

RunInitialStates == {EmptyState, ScoreState(Float(8)), ScoreState(Float(3))}

StoredSessions ==
    {[present |-> FALSE, state |-> EmptyState, order |-> <<>>]}
    \cup {[present |-> TRUE, state |-> s, order |-> OrderOf(DOMAIN s)] :
            s \in {EmptyState, ScoreState(Float(8)), ScoreState(Float(3)),
                   [k \in {"score", "document"} |-> IF k = "score" THEN Float(8) ELSE Str("doc")]}}

ExitDecls == {[emit_full_state |-> b, output_keys |-> <<>>] : b \in BOOLEAN}

\* the global scope as the definition's load seeded it
GlobalInitials == {EmptyState, ScoreState(Float(3))}

InitRun ==
    /\ StoreInit /\ dbOn = FALSE
    /\ CompIdle /\ FlowIdle /\ ExitIdle /\ MoreIdle
    /\ sm \in {[NoStores EXCEPT !["global"] = g] : g \in GlobalInitials}
    /\ ExecIdle
    /\ rCond = CondScore
    /\ rRoutes \in {Route("True", "A", "False", "B"), Route("True", "A", "True", "A")}
    /\ rpc = "idle" /\ rSnap = EmptyState /\ rKey = "" /\ rSel = "none"
    /\ rPending = <<>> /\ rErr = "none"
    /\ runPc = "begin"
    /\ runInit \in RunInitialStates
    /\ stored \in StoredSessions
    /\ defExit \in ExitDecls
    /\ finalResponse = <<>>

NextRun ==
    \/ RunGetOrCreate
    \/ RunInject
    \/ RunStart
    \/ RunRoot
    \/ RouterEvaluate
    \/ RouterMiss
    \/ RouterDispatch
    \/ RouterForward
    \/ RouterReturn
    \/ RunRootReturn
    \/ RunRootRaise
    \/ RunExit
    \/ RunCollect

SpecRun == InitRun /\ [][NextRun]_vars

(***************************************************************************)
(*                    Properties of the orchestrator run                   *)
(***************************************************************************)
\* the definition Start -> Router("{score}>0.5", True -> A, False -> B) ->
\* Exit with emit_full_state = true
C2_Definition ==
    /\ rCond = CondScore
    /\ rRoutes = Route("True", "A", "False", "B")
    /\ defExit.emit_full_state

HasLine(lines, l) == \E i \in 1..Len(lines) : lines[i] \in {l, l \o ","}

\* C2: a run of that definition with initial state score = 0.8 ends normally,
\* having executed node A and not node B, and its final output contains the
\* entry "score": 0.8.
C2_EndToEnd ==
    (C2_Definition /\ runInit = ScoreState(Float(8)) /\ runPc \in {"done", "failed"}) =>
        /\ runPc = "done"
        /\ executed = <<"A">>
        /\ HasLine(finalResponse, "  \"score\": 0.8")

(***************************************************************************)
(*                       The configuration compiler                        *)
(*                                                                         *)
(* create_agent calls itself through _create_sub_agents and                *)
(* _create_router_agent; cStack holds the calls in progress.  A frame is   *)
(* the configuration being created, the position in its references and the *)
(* instances obtained for them so far.                                     *)
(***************************************************************************)
MaxDepth == 4     \* the recursion limit, in create_agent calls

\* refs are the names of sub_agents or route targets; tools are the tool
\* names of an llm node, or the tool_name of a tool node
AgentConfig(name, type, refs) == [name |-> name, type |-> type, refs |-> refs, tools |-> <<>>]
Leaf(name) == AgentConfig(name, "llm", <<>>)
Llm(name, tools) == [AgentConfig(name, "llm", <<>>) EXCEPT !.tools = tools]
Tool(name, tool_name) == [AgentConfig(name, "tool", <<>>) EXCEPT !.tools = <<tool_name>>]

\* self.tools: the names _load_custom_tools and the registry provide
RegisteredTools == {"search"}

\* _create_llm_agent, lines 112-128: the tools of the names that are known
agent_tools(c) ==
    LET Known(n) == n \in RegisteredTools IN SelectSeq(c.tools, Known)

\* _create_tool_agent, lines 180-186: the tool of tool_name is missing
ToolNotFound(c) == c.type = "tool" /\ c.tools[1] \notin RegisteredTools
Sequential(name, sub_agents) == AgentConfig(name, "sequential", sub_agents)
Router(name, targets) == AgentConfig(name, "router", targets)

Frame(cfg, pos, got) == [cfg |-> cfg, pos |-> pos, got |-> got]

\* the memo check is left out: every call builds
Memo_Never(name, cr) == FALSE

\* agent_config.name in self._created_agents
Memo(name, cr) == name \in DOMAIN cr

\* config.get_agent_by_name(name): the first configuration of that name, as
\* its position in config.agents (0 for None)
get_agent_by_name(agents, name) ==
    IF \E i \in 1..Len(agents) : agents[i].name = name
    THEN CHOOSE i \in 1..Len(agents) :
            /\ agents[i].name = name
            /\ \A j \in 1..(i - 1) : agents[j].name # name
    ELSE 0

\* the callee has returned inst to the frame below it
Resume(stack, inst) ==
    [stack EXCEPT ![Len(stack)] =
        Frame(stack[Len(stack)].cfg, stack[Len(stack)].pos + 1,
              Append(stack[Len(stack)].got, inst))]

\* build, lines 103-104: create_agent for the next configuration of the list
BuildCreate ==
    /\ cpc = "agents"
    /\ cStack = <<>>
    /\ cIdx <= Len(cAgents)
    /\ IF Memo(cAgents[cIdx].name, created)
       THEN /\ cIdx' = cIdx + 1
            /\ UNCHANGED cStack
       ELSE /\ cStack' = <<Frame(cIdx, 1, <<>>)>>
            /\ UNCHANGED cIdx
    /\ UNCHANGED <<cAgents, cRoot, cpc, created, instances, rootSubs, cErr>>
    /\ UNCHANGED nonCompVars

\* _create_sub_agents (lines 312-316) and _create_router_agent (218-229): the
\* next reference of the configuration being created
CreateSub ==
    /\ cpc = "agents"
    /\ cStack # <<>>
    /\ LET f == cStack[Len(cStack)]
           c == cAgents[f.cfg]
       IN  /\ f.pos <= Len(c.refs)
           /\ LET n == c.refs[f.pos]
                  t == get_agent_by_name(cAgents, n)
              IN  IF c.type = "router" /\ n \in DOMAIN created
                  THEN /\ cStack' = Resume(cStack, created[n])
                       /\ UNCHANGED <<cpc, cErr>>
                  ELSE IF t = 0
                  THEN /\ cpc' = "failed"
                       /\ cErr' = "ValueError"
                       /\ UNCHANGED cStack
                  ELSE IF Memo(n, created)
                  THEN /\ cStack' = Resume(cStack, created[n])
                       /\ UNCHANGED <<cpc, cErr>>
                  ELSE IF Len(cStack) >= MaxDepth
                  THEN /\ cpc' = "failed"
                       /\ cErr' = "RecursionError"
                       /\ UNCHANGED cStack
                  ELSE /\ cStack' = Append(cStack, Frame(t, 1, <<>>))
                       /\ UNCHANGED <<cpc, cErr>>
    /\ UNCHANGED <<cAgents, cRoot, cIdx, created, instances, rootSubs>>
    /\ UNCHANGED nonCompVars

\* create_agent, lines 44-83: the references are resolved; the agent is
\* constructed, stored under its name and returned
CreateFinish ==
    /\ cpc = "agents"
    /\ cStack # <<>>
    /\ LET f == cStack[Len(cStack)]
           c == cAgents[f.cfg]
           inst == Len(instances) + 1
           rest == SubSeq(cStack, 1, Len(cStack) - 1)
       IN  /\ f.pos > Len(c.refs)
           /\ IF ToolNotFound(c)
              THEN /\ cpc' = "failed"
                   /\ cErr' = "ValueError"
                   /\ UNCHANGED <<instances, created, cStack, cIdx>>
              ELSE /\ instances' = Append(instances,
                                      [name |-> c.name, cfg |-> f.cfg, subs |-> f.got,
                                       tools |-> agent_tools(c)])
                   /\ created' = [k \in DOMAIN created \cup {c.name} |->
                                     IF k = c.name THEN inst ELSE created[k]]
                   /\ IF rest = <<>>
                      THEN /\ cStack' = <<>>
                           /\ cIdx' = cIdx + 1
                      ELSE /\ cStack' = Resume(rest, inst)
                           /\ UNCHANGED cIdx
                   /\ UNCHANGED <<cpc, cErr>>
    /\ UNCHANGED <<cAgents, cRoot, rootSubs>>
    /\ UNCHANGED nonCompVars

\* build, lines 107-137: the members of the root workflow agent
BuildRoot ==
    /\ cpc = "agents"
    /\ cStack = <<>>
    /\ cIdx > Len(cAgents)
    /\ IF \A p \in 1..Len(cRoot) : cRoot[p] \in DOMAIN created
       THEN /\ rootSubs' = [p \in 1..Len(cRoot) |-> created[cRoot[p]]]
            /\ cpc' = "done"
            /\ UNCHANGED cErr
       ELSE /\ cpc' = "failed"
            /\ cErr' = "KeyError"
            /\ UNCHANGED rootSubs
    /\ UNCHANGED <<cAgents, cRoot, cIdx, cStack, created, instances>>
    /\ UNCHANGED nonCompVars

(***************************************************************************)
(* SpecCompile: one build of each of the definitions below.                *)
(***************************************************************************)
\* router A routes to router B and B routes back to A
RouterBackEdge == <<Router("A", <<"B">>), Router("B", <<"A">>)>>

Definitions ==
    {<<Leaf("A"), Leaf("B"), Router("R", <<"A", "B">>)>>,
     <<Router("R", <<"A", "B">>), Leaf("A"), Leaf("B")>>,
     <<Sequential("S", <<"A", "B">>), Leaf("A"), Leaf("B"), Sequential("T", <<"A", "S">>)>>,
     <<Router("R", <<"A", "A">>), Sequential("S", <<"R", "A">>), Leaf("A")>>,
     <<Sequential("S", <<"T">>), Sequential("T", <<"S">>)>>,
     <<Sequential("S", <<"S">>)>>,
     <<Router("R", <<"S">>), Sequential("S", <<"R">>)>>,
     RouterBackEdge,
     <<Leaf("A"), Sequential("A", <<"B">>), Leaf("B"), Sequential("S", <<"A", "A">>)>>,
     <<Sequential("S", <<"A", "Z">>), Leaf("A")>>,
     <<Leaf("A"), Router("R", <<"A", "Z">>)>>,
     <<Llm("A", <<"search">>), Tool("B", "search")>>,
     <<Llm("A", <<"search", "lookup">>), Leaf("B")>>,
     <<Leaf("A"), Tool("B", "lookup")>>}

\* workflow.agents: the first node, the last node, every node, or a name
\* that is not declared
RootsOf(agents) ==
    {<<agents[1].name>>, <<agents[Len(agents)].name>>,
     [i \in 1..Len(agents) |-> agents[i].name], <<agents[1].name, "Z">>}

InitCompile ==
    /\ StoreInit /\ dbOn = FALSE
    /\ ExecIdle /\ RouterIdle /\ RunIdle /\ RestIdle
    /\ cAgents \in Definitions
    /\ cRoot \in RootsOf(cAgents)
    /\ cpc = "agents"
    /\ cIdx = 1
    /\ cStack = <<>>
    /\ created = EmptyState
    /\ instances = <<>>
    /\ rootSubs = <<>>
    /\ cErr = "none"

NextCompile ==
    \/ BuildCreate
    \/ CreateSub
    \/ CreateFinish
    \/ BuildRoot

SpecCompile == InitCompile /\ [][NextCompile]_vars

(***************************************************************************)
(*                        Properties of the compiler                       *)
(***************************************************************************)
\* the names instance i refers to, in order
RefNames(i) == cAgents[instances[i].cfg].refs

\* C10: at every point of a compilation no two constructed instances have the
\* same node name, and every reference held by a constructed composite or
\* router, by a call in progress or by the root workflow agent is the one
\* instance constructed for the name referred to.
C10_CompileMemo ==
    /\ \A i, j \in 1..Len(instances) :
          instances[i].name = instances[j].name => i = j
    /\ \A i \in 1..Len(instances) :
          /\ Len(instances[i].subs) = Len(RefNames(i))
          /\ \A p \in 1..Len(RefNames(i)) :
                instances[instances[i].subs[p]].name = RefNames(i)[p]
    /\ \A d \in 1..Len(cStack) : \A p \in 1..Len(cStack[d].got) :
          instances[cStack[d].got[p]].name = cAgents[cStack[d].cfg].refs[p]
    /\ \A p \in 1..Len(rootSubs) : instances[rootSubs[p]].name = cRoot[p]

\* a compilation has ended in which one instance is at once a router target
\* and a member of the root workflow agent
C10_Witness ==
    /\ cpc = "done"
    /\ \E i \in 1..Len(instances) : \E p \in 1..Len(instances[i].subs) :
          /\ cAgents[instances[i].cfg].type = "router"
          /\ \E q \in 1..Len(rootSubs) : rootSubs[q] = instances[i].subs[p]


\* C11: the compilation of the definition in which router A routes to router
\* B and B routes back to A never ends in an error, no call chain reaches the
\* recursion limit, and once it has ended each of A and B has one instance,
\* which is the one the other router's route table holds.
C11_BackEdgeTerminates ==
    cAgents = RouterBackEdge =>
        /\ cErr = "none"
        /\ cpc # "failed"
        /\ cpc = "done" =>
              /\ {"A", "B"} \subseteq DOMAIN created
              /\ instances[created["A"]].subs = <<created["B"]>>
              /\ instances[created["B"]].subs = <<created["A"]>>

(***************************************************************************)
(*                          Argument templating                            *)
(*                                                                         *)
(* A string that is templated, or that a token may be replaced by, is a    *)
(* sequence of atoms: literal text, or a token {key} that the pattern      *)
(* \{(\w+)\} matches.                                                      *)
(***************************************************************************)
Lit(s) == [t |-> "lit", s |-> s]
Brace(key) == [t |-> "tok", s |-> key]

\* a str value by its atoms, and None
Text(atoms) == [ty |-> "text", n |-> 0, s |-> "", a |-> atoms]

\* str(state_value), as atoms
StrAtoms(v) == IF v.ty = "text" THEN v.a ELSE <<Lit(PyStr(v))>>

\* replace_placeholder(match): state.get(state_key, match.group(0)), and ""
\* for a value that is None
replace_placeholder(key, state) ==
    IF key \in DOMAIN state
    THEN IF state[key].ty = "none" THEN <<>> ELSE StrAtoms(state[key])
    ELSE <<Brace(key)>>

RECURSIVE Concat(_)
Concat(seqs) == IF seqs = <<>> THEN <<>> ELSE Head(seqs) \o Concat(Tail(seqs))

\* re.sub(r'\{(\w+)\}', replace_placeholder, text): one scan of text
re_sub(text, state) ==
    Concat([i \in 1..Len(text) |->
              IF text[i].t = "tok" THEN replace_placeholder(text[i].s, state)
              ELSE <<text[i]>>])

\* the result is scanned once more
resolve_string_Twice(text, state) == re_sub(re_sub(text, state), state)

\* ExternalAgent._resolve_string(text, state); ToolAgent._resolve_arguments
\* does the same to each str argument
resolve_string(text, state) == IF text = <<>> THEN <<>> ELSE re_sub(text, state)

\* ToolAgent._resolve_arguments(state)
resolve_arguments(arguments, state) ==
    [k \in DOMAIN arguments |->
        IF arguments[k].ty = "text"
        THEN Text(resolve_string(arguments[k].a, state))
        ELSE arguments[k]]

\* a tool node resolves its arguments against the snapshot of the session
\* state (tool_agent.py lines 92 and 110)
ToolResolve(m) ==
    /\ nodes[m].kind = "tool"
    /\ Len(invoked) < 1
    /\ invoked' = Append(invoked, [node |-> m, args |-> resolve_arguments(nodes[m].arguments, session)])
    /\ UNCHANGED <<wf, nodes, fIter, fDone, calls, exitAgent, sm, moreVars>>
    /\ UNCHANGED <<storeVars, reads, execVars, routerVars, runVars, compVars>>

\* an external node resolves its url against the snapshot (external_agent.py
\* lines 59 and 62)
ExternalResolve(m) ==
    /\ nodes[m].kind = "external"
    /\ Len(invoked) < 1
    /\ invoked' = Append(invoked, [node |-> m,
                       args |-> [k \in {"url"} |-> Text(resolve_string(nodes[m].url, session))]])
    /\ UNCHANGED <<wf, nodes, fIter, fDone, calls, exitAgent, sm, moreVars>>
    /\ UNCHANGED <<storeVars, reads, execVars, routerVars, runVars, compVars>>

(***************************************************************************)
(* SpecTemplate: one resolution by a tool node and by an external node,    *)
(* for each template and each state of the sets below.                     *)
(***************************************************************************)
Templates ==
    {<<>>, <<Brace("topic")>>, <<Lit("about "), Brace("topic"), Lit("!")>>,
     <<Brace("a"), Brace("b")>>, <<Lit("{"), Brace("a"), Lit("}")>>,
     <<Brace("topic"), Brace("topic")>>}

TemplateValues ==
    {Text(<<Lit("cats")>>), Text(<<Brace("b")>>), Text(<<Brace("topic")>>), Text(<<>>),
     Num(3), Bool(TRUE), None}

TemplateStates ==
    {EmptyState}
    \cup {[k \in {"topic"} |-> v] : v \in TemplateValues}
    \cup {[k \in {"a", "b"} |-> IF k = "a" THEN v ELSE Text(<<Lit("dogs")>>)] : v \in TemplateValues}
    \cup {[k \in {"a"} |-> v] : v \in TemplateValues}

\* the node configurations: a tool node with a str and a non-str argument,
\* and an external node
TemplateNodes(tpl) ==
    [m \in {"T", "X"} |->
        IF m = "T"
        THEN [kind |-> "tool", arguments |-> [k \in {"q", "n"} |-> IF k = "q" THEN Text(tpl) ELSE Num(3)]]
        ELSE [kind |-> "external", url |-> tpl]]

InitTemplate ==
    /\ StoreInit /\ dbOn = FALSE
    /\ RouterIdle /\ RunIdle /\ CompIdle /\ ExitIdle /\ ScopeIdle /\ MoreIdle
    /\ session \in TemplateStates
    /\ order = OrderOf(DOMAIN session)
    /\ events = <<>> /\ executed = <<>>
    /\ wf = [type |-> "sequential", agents |-> <<>>, max_iterations |-> 0]
    /\ nodes \in {TemplateNodes(tpl) : tpl \in Templates}
    /\ fIter = 0 /\ fDone = {} /\ calls = <<>> /\ invoked = <<>>

NextTemplate ==
    \/ ToolResolve("T")
    \/ ExternalResolve("X")

SpecTemplate == InitTemplate /\ [][NextTemplate]_vars

(***************************************************************************)
(*                   Properties of argument templating                     *)
(***************************************************************************)
\* the template a resolution started from, and its result
TemplateOf(call) ==
    IF call.node = "T" THEN nodes["T"].arguments["q"].a ELSE nodes["X"].url

ResultOf(call) == IF call.node = "T" THEN call.args["q"].a ELSE call.args["url"].a

\* what the claim says a template resolves to, atom by atom; noneAs is what
\* stands for a present key whose value is None
RECURSIVE Expected(_, _, _)
Expected(text, state, noneAs) ==
    IF text = <<>> THEN <<>>
    ELSE LET h == Head(text)
             r == IF h.t = "tok" /\ h.s \in DOMAIN state
                  THEN IF state[h.s].ty = "none" THEN noneAs ELSE StrAtoms(state[h.s])
                  ELSE <<h>>
         IN  r \o Expected(Tail(text), state, noneAs)

\* C15, as stated: every token whose key the snapshot holds is replaced by
\* str() of the value (str(None) is "None"), every other token stays as it
\* is, a non-str argument passes through unchanged, and nothing that was
\* substituted is expanded again.
C15_TemplatingAsStated ==
    \A i \in 1..Len(invoked) :
        /\ ResultOf(invoked[i]) = Expected(TemplateOf(invoked[i]), session, <<Lit("None")>>)
        /\ invoked[i].node = "T" => invoked[i].args["n"] = nodes["T"].arguments["n"]

\* C15, amended: the same, with the empty string for a present key whose
\* value is None.
C15_Templating ==
    \A i \in 1..Len(invoked) :
        /\ ResultOf(invoked[i]) = Expected(TemplateOf(invoked[i]), session, <<>>)
        /\ invoked[i].node = "T" => invoked[i].args["n"] = nodes["T"].arguments["n"]

\* a resolution whose substituted value holds a token of a present key, which
\* is still in the result
C15_Witness ==
    /\ invoked # <<>>
    /\ TemplateOf(invoked[1]) = <<Brace("a"), Brace("b")>>
    /\ session = [k \in {"a", "b"} |-> IF k = "a" THEN Text(<<Brace("b")>>) ELSE Text(<<Lit("dogs")>>)]
    /\ ResultOf(invoked[1]) = <<Brace("b"), Lit("dogs")>>

(***************************************************************************)
(*                             The exit node                               *)
(***************************************************************************)
\* ExitAgent._run_async_impl of an instance with the fields exitAgent
ExitRun ==
    /\ events = <<>>
    /\ events' = Append(events, Ev("workflow_exit", "text",
                                   ExitOutput(exitAgent, session, order), {}, EmptyState))
    /\ UNCHANGED <<session, order, executed, flowVars, exitAgent, sm, moreVars>>
    /\ UNCHANGED <<storeVars, reads, routerVars, runVars, compVars>>

(***************************************************************************)
(* SpecExit: one execution of an exit node, for each configuration and     *)
(* each session state (with its insertion order) of the sets below.        *)
(***************************************************************************)
ExitAgents ==
    {ExitAgent(e, k, ks) : e \in BOOLEAN, k \in {"none", "a_out", "score"},
                           ks \in {<<>>, <<"a_out", "b_out">>, <<"b_out">>}}

ExitStates ==
    {EmptyState, ScoreState(Float(8)),
     [k \in {"a_out"} |-> Str("A")],
     [k \in {"score", "b_out"} |-> IF k = "score" THEN Float(3) ELSE Str("B")],
     [k \in {"score", "a_out", "b_out"} |-> IF k = "score" THEN Float(8) ELSE Str("A")],
     [k \in {"document"} |-> Str("doc")],
     [k \in {"score", "document", "metadata"} |-> IF k = "score" THEN Float(8) ELSE Str("doc")]}

Reverse(s) == [i \in 1..Len(s) |-> s[Len(s) + 1 - i]]

InitExit ==
    /\ StoreInit /\ dbOn = FALSE
    /\ RouterIdle /\ RunIdle /\ CompIdle /\ FlowIdle /\ ScopeIdle /\ MoreIdle
    /\ session \in ExitStates
    /\ order \in {OrderOf(DOMAIN session), Reverse(OrderOf(DOMAIN session))}
    /\ events = <<>> /\ executed = <<>>
    /\ exitAgent \in ExitAgents

NextExit == ExitRun

SpecExit == InitExit /\ [][NextExit]_vars

(***************************************************************************)
(*                      Properties of the exit node                        *)
(***************************************************************************)
\* the alternatives of the claim, each yielding lines or nothing (<<>>)
FullState == IF exitAgent.emit_full_state THEN json_dumps(session, order) ELSE <<>>

FirstCandidate ==
    LET Held(k) == k \in DOMAIN session
        found == SelectSeq(exitAgent.output_keys, Held)
    IN  IF found # <<>> THEN <<PyStr(session[Head(found)])>> ELSE <<>>

SingleKey ==
    IF exitAgent.output_key \in DOMAIN session
    THEN <<PyStr(session[exitAgent.output_key])>> ELSE <<>>

LastAdded ==
    LET User(k) == k \notin {"document", "metadata"}
        user_keys == SelectSeq(order, User)
    IN  IF user_keys # <<>> THEN <<PyStr(session[user_keys[Len(user_keys)]])>> ELSE <<>>

\* C14: the text of the exit event is the first of the four alternatives
\* (entire state, first present candidate key, single configured key, last
\* added non-reserved key) that yields something.
C14_ExitPriority ==
    events # <<>> =>
        LET text == events[1].text IN
        IF FullState # <<>> THEN text = FullState
        ELSE IF FirstCandidate # <<>> THEN text = FirstCandidate
        ELSE IF SingleKey # <<>> THEN text = SingleKey
        ELSE IF LastAdded # <<>> THEN text = LastAdded
        ELSE TRUE


(***************************************************************************)
(*                      Properties of the start node                       *)
(***************************************************************************)
\* C13: when the Start node has run and no user-declared node has yet, the
\* session holds every key/value of the run's initial-state map, and the
\* Start event's state delta is that map (no delta for an empty map).
C13_StartSeeding ==
    runPc = "root" =>
        /\ events # <<>>
        /\ events[1].author = "workflow_start"
        /\ events[1].delta = runInit
        /\ \A k \in DOMAIN runInit : k \in DOMAIN session /\ session[k] = runInit[k]

(***************************************************************************)
(*               Leaf nodes: tool, external and a2a nodes                  *)
(*                                                                         *)
(* A node's configuration holds what the node is built from, and in        *)
(* behaviours what its callable (tool nodes) or its endpoint (external and *)
(* a2a nodes) can do when it is called.                                    *)
(***************************************************************************)
\* LifecycleCallbacks: the callback names of each phase
Callbacks(agent_start, tool_start, tool_finish, agent_finish) ==
    [on_agent_start |-> agent_start, on_tool_start |-> tool_start,
     on_tool_finish |-> tool_finish, on_agent_finish |-> agent_finish]

NoCallbacks == Callbacks(<<>>, <<>>, <<>>, <<>>)

\* CallbackRegistry._callbacks: the names that are registered
Registered == {"cb_agent_start", "cb_tool_start", "cb_tool_finish", "cb_agent_finish"}

\* what a tool callable does: it returns a value (None included) or raises
Return(v) == [kind |-> "return", v |-> v, msg |-> ""]
Raises(msg) == [kind |-> "raise", v |-> None, msg |-> msg]

\* what an HTTP call does: kind is "transport", "timeout" or "status" (an
\* exception, with its text), "notjson" or "json" (a response, with its body),
\* and for an a2a envelope "error" (status "error") or "mismatch" (another
\* protocol tag, with its result)
Http(kind, body) == [kind |-> kind, v |-> None, msg |-> body]

HttpFailures == {"transport", "timeout", "status"}

\* the exception leaves the node
tool_result_Propagates(o) ==
    IF o.kind = "return"
    THEN [raised |-> FALSE, text |-> IF o.v.ty = "none" THEN "" ELSE PyStr(o.v)]
    ELSE [raised |-> TRUE, text |-> ""]

\* tool_agent.py lines 113-121: result_str
tool_result(o) ==
    IF o.kind = "return"
    THEN [raised |-> FALSE, text |-> IF o.v.ty = "none" THEN "" ELSE PyStr(o.v)]
    ELSE [raised |-> FALSE, text |-> "Tool execution error: " \o o.msg]

\* the exception leaves the node
external_result_Propagates(o) ==
    IF o.kind \in HttpFailures
    THEN [raised |-> TRUE, text |-> ""]
    ELSE [raised |-> FALSE, text |-> o.msg]

\* external_agent.py lines 86-113: result_str
external_result(o) ==
    IF o.kind \in HttpFailures
    THEN [raised |-> FALSE, text |-> "Error: External request failed: " \o o.msg]
    ELSE [raised |-> FALSE, text |-> o.msg]

\* a2a_agent.py lines 68-108: result_str
a2a_result(o) ==
    IF o.kind \in HttpFailures
    THEN [raised |-> FALSE, text |-> "Error: A2A request failed: " \o o.msg]
    ELSE IF o.kind \in {"notjson", "error"}
    THEN [raised |-> FALSE, text |-> "Error parsing response: " \o o.msg]
    ELSE [raised |-> FALSE, text |-> o.msg]

\* _run_callbacks / _execute_callbacks: the registered callbacks of a phase,
\* called in the order of the list
run_callbacks(names, phase, m) ==
    LET IsRegistered(n) == n \in Registered
        found == SelectSeq(names, IsRegistered)
    IN  [i \in 1..Len(found) |-> [cb |-> found[i], phase |-> phase, node |-> m]]

\* the tool callbacks run before the wrapper's
node_callbacks_ToolFirst(cfg, m) ==
    IF ~cfg.context THEN <<>>
    ELSE (IF cfg.kind = "tool"
          THEN run_callbacks(cfg.callbacks.on_tool_start, "tool_start", m)
               \o run_callbacks(cfg.callbacks.on_tool_finish, "tool_finish", m)
          ELSE <<>>)
         \o run_callbacks(cfg.callbacks.on_agent_start, "agent_start", m)
         \o run_callbacks(cfg.callbacks.on_agent_finish, "agent_finish", m)

\* the callbacks one execution of a node calls: a node with a context
\* configuration is wrapped (agent_factory.py:78-80), the wrapper calls
\* on_agent_start, runs the inner node, and calls on_agent_finish
\* (context_wrapper.py:98-122); a tool node inside it has the same callbacks
\* (agent_factory.py:188-197) and calls on_tool_start and on_tool_finish
\* around its callable (tool_agent.py:96-131)
node_callbacks(cfg, m) ==
    IF ~cfg.context THEN <<>>
    ELSE run_callbacks(cfg.callbacks.on_agent_start, "agent_start", m)
         \o (IF cfg.kind = "tool"
             THEN run_callbacks(cfg.callbacks.on_tool_start, "tool_start", m)
                  \o run_callbacks(cfg.callbacks.on_tool_finish, "tool_finish", m)
             ELSE <<>>)
         \o run_callbacks(cfg.callbacks.on_agent_finish, "agent_finish", m)

\* result_str of a node for what its callable or endpoint did
node_result(cfg, o) ==
    CASE cfg.kind = "tool" -> tool_result(o)
      [] cfg.kind = "external" -> external_result(o)
      [] OTHER -> a2a_result(o)

\* the state delta of the node's event: a tool node records its output key
\* (tool_agent.py:152-157), an external or a2a node builds its event without
\* actions
node_delta(cfg, text) ==
    IF cfg.kind = "tool" /\ cfg.output_key # "none"
    THEN [k \in {cfg.output_key} |-> Str(text)]
    ELSE EmptyState

\* what the node writes to ctx.session.state
node_write(cfg, text) ==
    IF cfg.output_key # "none" THEN [k \in {cfg.output_key} |-> Str(text)] ELSE EmptyState

\* the call the node makes: a tool node passes its resolved arguments, and
\* awaits its callable when that is a coroutine function
node_call(cfg, m, o, state) ==
    [node |-> m, outcome |-> o,
     args |-> IF cfg.kind = "tool" THEN resolve_arguments(cfg.arguments, state) ELSE EmptyState,
     mode |-> IF cfg.kind = "tool" /\ ~cfg.is_async THEN "called" ELSE "awaited"]

(***************************************************************************)
(*            The root workflow agent over its member nodes                *)
(***************************************************************************)
DefaultMaxIterations == 10

\* max_iterations=workflow.max_iterations or 10 (0 stands for None)
MaxIterations(w) == IF w.max_iterations = 0 THEN DefaultMaxIterations ELSE w.max_iterations

Members == 1..Len(wf.agents)

\* a member of a sequential or loop root runs after the members before it
Schedulable(i) ==
    /\ i \in Members \ fDone
    /\ wf.type = "parallel" \/ \A j \in 1..(i - 1) : j \in fDone

\* member i of the root runs: its callbacks, its call, its one event
FlowNode(i, o) ==
    /\ runPc = "root"
    /\ Schedulable(i)
    /\ LET m == wf.agents[i]
           cfg == nodes[m]
           r == node_result(cfg, o)
       IN  /\ o \in cfg.behaviours
           /\ calls' = calls \o node_callbacks(cfg, m)
           /\ invoked' = Append(invoked, node_call(cfg, m, o, session))
           /\ executed' = Append(executed, m)
           /\ IF r.raised
              THEN /\ runPc' = "failed"
                   /\ UNCHANGED <<session, order, events, fDone>>
              ELSE /\ session' = DictUpdate(session, node_write(cfg, r.text))
                   /\ order' = DictOrder(order, session, node_write(cfg, r.text))
                   /\ events' = Append(events, Ev(m, "text", <<r.text>>, {}, node_delta(cfg, r.text)))
                   /\ fDone' = fDone \cup {i}
                   /\ UNCHANGED runPc
    /\ UNCHANGED <<wf, nodes, fIter, exitAgent, sm, moreVars>>
    /\ UNCHANGED <<runInit, stored, defExit, finalResponse>>
    /\ UNCHANGED <<storeVars, reads, routerVars, compVars>>

\* a loop root starts its next iteration
FlowIterate ==
    /\ runPc = "root"
    /\ wf.type = "loop"
    /\ fDone = Members
    /\ fIter + 1 < MaxIterations(wf)
    /\ fIter' = fIter + 1
    /\ fDone' = {}
    /\ UNCHANGED <<wf, nodes, calls, invoked, exitAgent, sm, moreVars>>
    /\ UNCHANGED <<storeVars, reads, execVars, routerVars, runVars, compVars>>

\* the root has run its members (a loop root: max_iterations times)
FlowReturn ==
    /\ runPc = "root"
    /\ fDone = Members
    /\ wf.type = "loop" => fIter + 1 >= MaxIterations(wf)
    /\ runPc' = MemberAfter("root")
    /\ UNCHANGED <<runInit, stored, defExit, finalResponse>>
    /\ UNCHANGED <<flowVars, exitAgent, sm, moreVars>>
    /\ UNCHANGED <<storeVars, reads, execVars, routerVars, compVars>>

(***************************************************************************)
(* SpecFlow: one run_async call on a definition whose root workflow is a   *)
(* sequential, parallel or loop agent over tool, external and a2a nodes,   *)
(* for each thing the callables and the endpoints can do.                  *)
(***************************************************************************)
\* an AgentConfig of type tool, external or a2a
Node(kind, arguments, output_key, context, callbacks, is_async, behaviours) ==
    [kind |-> kind, arguments |-> arguments, output_key |-> output_key,
     context |-> context, callbacks |-> callbacks, is_async |-> is_async,
     behaviours |-> behaviours]

AllCallbacks ==
    Callbacks(<<"cb_agent_start">>, <<"cb_tool_start", "cb_missing">>,
              <<"cb_tool_finish">>, <<"cb_agent_finish">>)

ToolBehaviours == {Return(Str("ok")), Return(None), Return(Num(3)), Raises("boom")}

ExternalBehaviours ==
    {Http("transport", "connection refused"), Http("timeout", "timed out"),
     Http("status", "500 Server Error"), Http("json", "{'a': 1}"), Http("notjson", "pong")}

A2ABehaviours ==
    {Http("transport", "connection refused"), Http("timeout", "timed out"),
     Http("status", "500 Server Error"), Http("error", "{status: error}"),
     Http("mismatch", "{'a': 1}"), Http("json", "{'a': 1}"), Http("notjson", "pong")}

QArguments == [k \in {"q"} |-> Text(<<Lit("ask "), Brace("x")>>)]

FlowNodes ==
    [m \in {"T", "U", "X", "P", "L"} |->
        CASE m = "T" -> Node("tool", QArguments, "t_out", TRUE, AllCallbacks, FALSE, ToolBehaviours)
          [] m = "U" -> Node("tool", QArguments, "none", FALSE, NoCallbacks, TRUE, ToolBehaviours)
          [] m = "X" -> Node("external", EmptyState, "x_out", FALSE, NoCallbacks, FALSE, ExternalBehaviours)
          [] m = "P" -> Node("a2a", EmptyState, "p_out", TRUE, AllCallbacks, FALSE, A2ABehaviours)
          [] OTHER -> Node("tool", EmptyState, "l_out", FALSE, NoCallbacks, FALSE, {Return(Str("ok"))})]

\* WorkflowConfig: type, agents and max_iterations (0 stands for None)
Workflow(type, agents, max_iterations) ==
    [type |-> type, agents |-> agents, max_iterations |-> max_iterations]

Workflows ==
    {Workflow(t, a, 0) : t \in {"sequential", "parallel"},
                         a \in {<<"T", "X">>, <<"X", "U">>, <<"P", "T">>, <<"U">>}}
    \cup {Workflow("loop", <<"T">>, 2), Workflow("loop", <<"X", "L">>, 2),
          Workflow("loop", <<"L">>, 0)}

FlowSessions ==
    {[present |-> FALSE, state |-> EmptyState, order |-> <<>>],
     [present |-> TRUE, state |-> [k \in {"x"} |-> Str("hi")], order |-> <<"x">>]}

InitFlow ==
    /\ StoreInit /\ dbOn = FALSE
    /\ CompIdle /\ RouterIdle /\ ExitIdle /\ ScopeIdle /\ MoreIdle
    /\ ExecIdle
    /\ runPc = "begin"
    /\ runInit = EmptyState
    /\ stored \in FlowSessions
    /\ defExit \in ExitDecls
    /\ finalResponse = <<>>
    /\ wf \in Workflows
    /\ nodes = FlowNodes
    /\ fIter = 0 /\ fDone = {} /\ calls = <<>> /\ invoked = <<>>

NextFlow ==
    \/ RunGetOrCreate
    \/ RunInject
    \/ RunStart
    \/ \E i \in Members : \E o \in nodes[wf.agents[i]].behaviours : FlowNode(i, o)
    \/ FlowIterate
    \/ FlowReturn
    \/ RunExit
    \/ RunCollect

SpecFlow == InitFlow /\ [][NextFlow]_vars

(***************************************************************************)
(* Properties of SpecFlow                                                  *)
(***************************************************************************)
NodeEvent(e) == e.author \in DOMAIN nodes

\* C12: for a sequential, a parallel and a loop root alike, the lifecycle
\* bracket runs Start, the user's root, Exit in that order: the Start event
\* is the first event of the run and precedes every event of a declared
\* node, the Exit event comes after all of them and is the last event of a
\* run that has finished.
C12_LifecycleBracket ==
    /\ \A i \in 1..Len(events) :
          /\ events[i].author = "workflow_start" <=> i = 1
          /\ events[i].author = "workflow_exit" => i = Len(events)
          /\ NodeEvent(events[i]) =>
                /\ \E j \in 1..(i - 1) : events[j].author = "workflow_start"
                /\ \A j \in 1..(i - 1) : events[j].author # "workflow_exit"
    /\ runPc \in {"collect", "done"} =>
          /\ Len(events) >= 2
          /\ events[Len(events)].author = "workflow_exit"
          /\ \A i \in 2..(Len(events) - 1) : NodeEvent(events[i])
          /\ Len(executed) = Len(events) - 2

C12_Witness ==
    /\ runPc = "done"
    /\ wf.type = "parallel"
    /\ Len(events) = 4
    /\ events[2].author = "T" /\ events[3].author = "P"

\* the events of the declared nodes, in the order they were emitted
NodeEvents == SelectSeq(events, NodeEvent)

\* the last execution of node m is execution k
LastCall(k) == \A j \in (k + 1)..Len(invoked) : invoked[j].node # invoked[k].node

\* the text a tool node gives for what its callable did, a None result
\* reading as noneText
ToolText(o, noneText) ==
    IF o.kind = "raise" THEN "Tool execution error: " \o o.msg
    ELSE IF o.v.ty = "none" THEN noneText
    ELSE PyStr(o.v)

\* no execution of a node raised, each execution emitted one event, and the
\* event of each tool node execution has the text of what its callable did;
\* with an output key that text is the event's state delta and, until the
\* node runs again, the session's value of the key
ToolAbsorbs(noneText) ==
    /\ runPc # "failed"
    /\ Len(NodeEvents) = Len(invoked)
    /\ \A k \in 1..Len(invoked) :
          LET c == invoked[k]
              cfg == nodes[c.node]
              e == NodeEvents[k]
              text == ToolText(c.outcome, noneText)
          IN  cfg.kind = "tool" =>
                /\ e.author = c.node
                /\ e.text = <<text>>
                /\ c.mode = IF cfg.is_async THEN "awaited" ELSE "called"
                /\ IF cfg.output_key = "none"
                   THEN e.delta = EmptyState
                   ELSE /\ e.delta = [key \in {cfg.output_key} |-> Str(text)]
                        /\ LastCall(k) =>
                              /\ cfg.output_key \in DOMAIN session
                              /\ session[cfg.output_key] = Str(text)

\* C16 as stated: whatever the callable does (return or raise, sync or
\* async) the tool node raises nothing and emits exactly one event whose
\* text is the stringified result or an error text, stored under the output
\* key in the session state and in the event's state delta.
C16_ToolAbsorptionAsStated == ToolAbsorbs("None")

\* C16: whatever the callable does (return or raise, sync or async) the tool
\* node raises nothing and emits exactly one event whose text is the
\* stringified result, the empty text for a None result, or an error text;
\* with an output key that same text is stored under the key in the session
\* state and in the event's state delta.
C16_ToolAbsorption == ToolAbsorbs("")

C16_Witness ==
    /\ runPc = "done"
    /\ wf.agents = <<"T">>
    /\ Len(invoked) = 2
    /\ invoked[1].outcome = Return(None)
    /\ invoked[2].outcome = Raises("boom")
    /\ session["t_out"] = Str("Tool execution error: boom")

\* the outcomes of the outbound call that are call failures
CallFailed(cfg, o) ==
    /\ cfg.kind \in {"external", "a2a"}
    /\ o.kind \in HttpFailures \/ (cfg.kind = "a2a" /\ o.kind = "error")

\* the error text of a failed call
FailureText(cfg, o) ==
    IF o.kind = "error" THEN "Error parsing response: " \o o.msg
    ELSE IF cfg.kind = "external" THEN "Error: External request failed: " \o o.msg
    ELSE "Error: A2A request failed: " \o o.msg

\* member i of the root is the node of execution k
MemberOf(k, i) == i \in Members /\ wf.agents[i] = invoked[k].node

\* C17: for a transport failure, a timeout, an error status code and an a2a
\* response with status "error", the external or a2a node raises nothing and
\* emits exactly one event whose text is an error text; with an output key
\* that text is stored under the key in the session state; and the nodes
\* after it in the graph still execute.
C17_CallFailureAbsorbed ==
    /\ runPc # "failed"
    /\ Len(NodeEvents) = Len(invoked)
    /\ \A k \in 1..Len(invoked) :
          LET c == invoked[k]
              cfg == nodes[c.node]
              e == NodeEvents[k]
          IN  CallFailed(cfg, c.outcome) =>
                /\ e.author = c.node
                /\ e.text = <<FailureText(cfg, c.outcome)>>
                /\ cfg.output_key # "none" /\ LastCall(k) =>
                      /\ cfg.output_key \in DOMAIN session
                      /\ session[cfg.output_key] = Str(FailureText(cfg, c.outcome))
                /\ runPc \in {"exit", "collect", "done"} =>
                      \A i, j \in Members :
                          MemberOf(k, i) /\ j # i =>
                              \E k2 \in 1..Len(invoked) :
                                  /\ MemberOf(k2, j)
                                  /\ wf.type # "parallel" /\ j > i => k2 > k

C17_Witness ==
    /\ runPc = "done"
    /\ wf = Workflow("sequential", <<"P", "T">>, 0)
    /\ invoked[1].outcome.kind = "error"
    /\ session["p_out"] = Str("Error parsing response: {status: error}")
    /\ executed = <<"P", "T">>

\* the callback invocations of node m, in the order they were made
CallsOf(m) == LET Of(c) == c.node = m IN SelectSeq(calls, Of)

\* the executions of node m
RunsOf(m) == LET Of(c) == c.node = m IN Len(SelectSeq(invoked, Of))

PhaseOrder == <<"agent_start", "tool_start", "tool_finish", "agent_finish">>

C18_ScopeShadowing ==
    /\ runPc \notin {"begin", "inject"}
    /\ "score" \in DOMAIN sm["global"]
    /\ "score" \in DOMAIN runInit
    /\ runInit["score"] # sm["global"]["score"]
    => \A h \in 1..Len(Scopes) : sm_get(sm, Scopes[h], "score") = runInit["score"]


(***************************************************************************)
(* Unresolved references                                                   *)
(***************************************************************************)
Declared == {cAgents[i].name : i \in 1..Len(cAgents)}

\* some node names a tool that is not registered, or a sub-agent or a route
\* target that is not declared, or the root workflow a member that is not
\* declared
Unresolved ==
    \/ \E i \in 1..Len(cAgents) :
          \/ \E p \in 1..Len(cAgents[i].tools) : cAgents[i].tools[p] \notin RegisteredTools
          \/ \E p \in 1..Len(cAgents[i].refs) : cAgents[i].refs[p] \notin Declared
    \/ \E p \in 1..Len(cRoot) : cRoot[p] \notin Declared

\* C20: a definition in which a node references a tool name, a sub-agent
\* name, a route target name or a root member name that is not declared or
\* registered does not compile: its build ends in an error and constructs no
\* root workflow agent.
C20_UnresolvedBlocksBuild == Unresolved => cpc # "done"

(***************************************************************************)
(* Route keys and dispatch                                                 *)
(***************************************************************************)
BooleanKeys == {"True", "true", "False", "false"}

\* the same boolean word in the other casing
OtherCasing(key) ==
    CASE key = "True" -> "true"
      [] key = "true" -> "True"
      [] key = "False" -> "false"
      [] OTHER -> "False"

\* C21: a result key "True", "true", "False" or "false" that has no route
\* under its own casing selects the route declared under the other casing.
C21_BooleanCasing ==
    (/\ Evaluated
     /\ rKey \in BooleanKeys
     /\ rKey \notin DOMAIN rRoutes
     /\ OtherCasing(rKey) \in DOMAIN rRoutes)
    => rSel = rRoutes[OtherCasing(rKey)]

\* the target that resolves for a key: its own route, else for "True" and
\* "False" the route of the lower-case key
Resolves(routes, key) ==
    \/ key \in DOMAIN routes
    \/ key = "True" /\ "true" \in DOMAIN routes
    \/ key = "False" /\ "false" \in DOMAIN routes

Target(routes, key) ==
    IF key \in DOMAIN routes THEN routes[key]
    ELSE IF key = "True" THEN routes["true"]
    ELSE routes["false"]

RECURSIVE Applied(_, _)
\* a state after the deltas of a sequence of events
Applied(state, evs) ==
    IF evs = <<>> THEN state ELSE Applied(DictUpdate(state, Head(evs).delta), Tail(evs))

\* C22: when a target resolves, the router executes that child and no other,
\* the events it has yielded followed by those still to come are exactly the
\* child's events in the child's order, and the session state differs from
\* the router's snapshot only by what the child's yielded events wrote.
C22_RouterDispatch ==
    (Evaluated /\ Resolves(rRoutes, rKey)) =>
        /\ rSel = Target(rRoutes, rKey)
        /\ rpc \in {"dispatch", "forward", "done"}
        /\ rpc = "dispatch" => executed = <<>> /\ events = <<>> /\ session = rSnap
        /\ rpc \in {"forward", "done"} =>
              /\ executed = <<rSel>>
              /\ events \o rPending = ChildEvents(rSel)
              /\ session = Applied(rSnap, events)
        /\ rpc = "done" => events = ChildEvents(rSel)

C22_Witness ==
    /\ rpc = "done"
    /\ rKey = "True" /\ rRoutes = Route("true", "A", "false", "B")
    /\ executed = <<"A">>
    /\ Len(events) = 2
    /\ "a_out" \in DOMAIN session

(***************************************************************************)
(* Structural cycles                                                       *)
(***************************************************************************)
\* configuration i is a structural node that lists configuration j
SubAgentEdge(i, j) ==
    /\ cAgents[i].type = "sequential"
    /\ \E p \in 1..Len(cAgents[i].refs) : get_agent_by_name(cAgents, cAgents[i].refs[p]) = j

RECURSIVE ReachedFrom(_, _)
\* the configurations reached from the set S through sub-agent lists
ReachedFrom(S, n) ==
    IF n = 0 THEN S
    ELSE ReachedFrom(S \cup {j \in 1..Len(cAgents) : \E i \in S : SubAgentEdge(i, j)}, n - 1)

\* a structural node reaches itself through sub-agent lists
StructuralCycle ==
    \E i \in 1..Len(cAgents) :
        i \in ReachedFrom({j \in 1..Len(cAgents) : SubAgentEdge(i, j)}, Len(cAgents))

\* C23: the compilation of a definition with a structural cycle does not
\* recurse up to the interpreter's recursion limit and does not succeed: it
\* ends in a compile error.
C23_StructuralCycleRejected ==
    StructuralCycle =>
        /\ cpc # "done"
        /\ cErr # "RecursionError"
        /\ Len(cStack) < MaxDepth

(***************************************************************************)
(* The two cache keys of a session                                         *)
(***************************************************************************)
\* the last call wrote or refreshed session s in the cache
Refreshed(s) ==
    /\ ret.sid = s
    /\ \/ ret.op = "create"
       \/ ret.op = "get" /\ ret.src \in {"cache", "db"}
       \/ ret.op = "append" /\ ret.src \in {"id", "session"}

\* both keys of session s are in the cache
BothKeys(s) == redis[s].kind # "none" /\ now < redis[s].exp /\ now < history[s].exp

\* C24: after a call that wrote or refreshed a session in the cache (create,
\* get hit, read repair, append_event on either path), the state key and the
\* history key of the session, when both exist, expire at the same time.
C24_TTLUniform ==
    \A s \in Sessions : Refreshed(s) /\ BothKeys(s) => redis[s].exp = history[s].exp

\* the step is append_event(session_id=s, event=ev) made while the snapshot
\* of s is in the cache and readable
AppendsById(s, ev) ==
    /\ ret'.op = "append" /\ ret'.src = "id" /\ ret'.sid = s
    /\ Len(appended') = Len(appended) + 1
    /\ appended'[Len(appended')].ev = ev
    /\ ClientGet(s).kind = "json"

\* C25: an append_event by session id, made on a cached snapshot, leaves the
\* cache (state, history and expiry times) as the append_event of the same
\* event with the current session object would have left it, the current
\* object being the cached user and the cached state with the event's delta
\* applied.
C25_AppendPathsAgree ==
    [][\A s \in Sessions, d \in Deltas :
          AppendsById(s, Event(d)) =>
              /\ redis' = append_event_redis("session", s, ClientGet(s).user, Event(d),
                                             DictUpdate(ClientGet(s).state, d))
              /\ history' = append_event_history(s, Event(d))]_vars

(***************************************************************************)
(* SpecRace: two callers in append_event for the same session id, in       *)
(* different workers.  Each call to the cache is one step; the steps of    *)
(* the two callers interleave.  There is no durable store and no time      *)
(* passes.                                                                 *)
(***************************************************************************)
\* the locals of caller c with some fields replaced
CallerAt(c, pc, data) == [callers[c] EXCEPT !.pc = pc, !.data = data]

\* append_event(session_id=.., event=..) or append_event(session=.., event=..)
\* is called: lines 147-163
RaceCall(c, shape, d) ==
    /\ callers[c].pc = "idle"
    /\ callers' = [callers EXCEPT ![c] =
          [pc |-> "history", shape |-> shape,
           ev |-> [id |-> IF c = "c1" THEN 1 ELSE 2, delta |-> d],
           obj |-> IF shape = "session" THEN DictUpdate(ClientGet("s1").state, d)
                   ELSE EmptyState,
           data |-> IdleCaller.data]]
    /\ UNCHANGED <<writes, wrapVars, lateVars, storeVars, reads>>
    /\ UNCHANGED <<execVars, routerVars, runVars, compVars, flowVars, exitAgent, sm>>

\* lines 182-183: rpush and expire on the history key
RaceHistory(c) ==
    /\ callers[c].pc = "history"
    /\ history' = append_event_history("s1", callers[c].ev)
    /\ callers' = [callers EXCEPT ![c].pc = "state"]
    /\ UNCHANGED <<redis, db, dbEvents, dbOn, now, ret, appended, reads, writes, wrapVars, lateVars>>
    /\ UNCHANGED <<execVars, routerVars, runVars, compVars, flowVars, exitAgent, sm>>

\* lines 191-201: the session object's state overwrites the state key
RaceOverwrite(c) ==
    /\ callers[c].pc = "state"
    /\ callers[c].shape = "session"
    /\ redis' = ClientSetex(redis, "s1", JsonDumps("u1", callers[c].obj))
    /\ writes' = Append(writes, [by |-> c, state |-> callers[c].obj])
    /\ callers' = [callers EXCEPT ![c].pc = "done"]
    /\ UNCHANGED <<history, db, dbEvents, dbOn, now, ret, appended, reads, wrapVars, lateVars>>
    /\ UNCHANGED <<execVars, routerVars, runVars, compVars, flowVars, exitAgent, sm>>

\* lines 204-210: the snapshot is read
RaceRead(c) ==
    /\ callers[c].pc = "state"
    /\ callers[c].shape = "id"
    /\ LET data == ClientGet("s1") IN
       callers' = [callers EXCEPT ![c] =
          CallerAt(c, IF data.kind # "none" /\ JsonLoadsOk(data)
                         /\ callers[c].ev.delta # EmptyState
                      THEN "write" ELSE "done",
                   data)]
    /\ UNCHANGED <<writes, wrapVars, lateVars, storeVars, reads>>
    /\ UNCHANGED <<execVars, routerVars, runVars, compVars, flowVars, exitAgent, sm>>

\* lines 213-217: the delta is merged into the snapshot that was read, and
\* the result is written back
RaceWrite(c) ==
    /\ callers[c].pc = "write"
    /\ LET merged == DictUpdate(callers[c].data.state, callers[c].ev.delta) IN
       /\ redis' = ClientSetex(redis, "s1", JsonDumps(callers[c].data.user, merged))
       /\ writes' = Append(writes, [by |-> c, state |-> merged])
    /\ callers' = [callers EXCEPT ![c].pc = "done"]
    /\ UNCHANGED <<history, db, dbEvents, dbOn, now, ret, appended, reads, wrapVars, lateVars>>
    /\ UNCHANGED <<execVars, routerVars, runVars, compVars, flowVars, exitAgent, sm>>

RaceDeltas ==
    {EmptyState, [k \in {"k1"} |-> "v1"], [k \in {"k2"} |-> "v2"], [k \in {"k1"} |-> "v2"]}

RaceSnapshots == {EmptyState, [k \in {"k1"} |-> "v1"]}

InitRace ==
    /\ \E st \in RaceSnapshots :
          redis = [s \in Sessions |->
                     IF s = "s1"
                     THEN [kind |-> "json", user |-> "u1", state |-> st, exp |-> TTL]
                     ELSE NoKey]
    /\ history = [s \in Sessions |-> NoHistory]
    /\ db = [s \in Sessions |-> NoSession]
    /\ dbEvents = <<>> /\ dbOn = FALSE /\ now = 0 /\ ret = NoRet /\ appended = <<>>
    /\ reads = [s \in Sessions |-> {}]
    /\ ExecIdle /\ RouterIdle /\ RunIdle /\ CompIdle
    /\ FlowIdle /\ ExitIdle /\ ScopeIdle /\ RaceIdle /\ WrapIdle /\ LateIdle

NextRace ==
    \/ \E c \in Callers, shape \in {"id", "session"}, d \in RaceDeltas : RaceCall(c, shape, d)
    \/ \E c \in Callers : RaceHistory(c)
    \/ \E c \in Callers : RaceOverwrite(c)
    \/ \E c \in Callers : RaceRead(c)
    \/ \E c \in Callers : RaceWrite(c)

SpecRace == InitRace /\ [][NextRace]_vars

\* both callers have returned
BothDone == \A c \in Callers : callers[c].pc = "done"

\* C26: when two callers have appended events for the same session id
\* concurrently, the cached state is the snapshot of the cache write that
\* happened last, whichever caller made it and whatever the other caller
\* wrote, and the history log holds both events.
C26_LastWriteWins ==
    BothDone =>
        /\ writes # <<>> => redis["s1"].state = writes[Len(writes)].state
        /\ Len(history["s1"].events) = 2
        /\ {history["s1"].events[i] : i \in 1..2} = {callers[c].ev : c \in Callers}

\* both callers wrote, and the write of c1 is lost
C26_Witness ==
    /\ BothDone
    /\ Len(writes) = 2
    /\ writes[1].by = "c1" /\ writes[2].by = "c2"
    /\ callers["c1"].shape = "id" /\ callers["c2"].shape = "id"
    /\ callers["c1"].ev.delta = [k \in {"k1"} |-> "v1"]
    /\ callers["c2"].ev.delta = [k \in {"k2"} |-> "v2"]
    /\ "k1" \notin DOMAIN redis["s1"].state

(***************************************************************************)
(*        A node run inside its context wrapper (ContextWrapperAgent)      *)
(*                                                                         *)
(* A callback of the registry is what it does when it is called: the keys  *)
(* it sets through its callback context, and whether it then raises.       *)
(***************************************************************************)
Callback(set, raises) == [set |-> set, raises |-> raises]

RECURSIVE MergeAll(_)
\* successive dict.update calls on one dict
MergeAll(ds) == IF ds = <<>> THEN EmptyState ELSE DictUpdate(ds[1], MergeAll(Tail(ds)))

\* the first callback that raises ends the loop, and its exception leaves
execute_callbacks_StopOnRaise(names, phase, m, reg) ==
    LET IsRegistered(n) == n \in DOMAIN reg
        found == SelectSeq(names, IsRegistered)
        bad == {i \in 1..Len(found) : reg[found[i]].raises}
        upto == IF bad = {} THEN Len(found) ELSE CHOOSE i \in bad : \A j \in bad : i <= j
    IN  [calls |-> [i \in 1..upto |-> [cb |-> found[i], phase |-> phase, node |-> m]],
         delta |-> MergeAll([i \in 1..upto |-> reg[found[i]].set]),
         raised |-> bad # {}]

\* _execute_callbacks (context_wrapper.py:64-83) and _run_callbacks
\* (tool_agent.py:55-84): each name of the list that is registered is called
\* with a callback context over one EventActions; an exception of a callback
\* is caught and the loop goes on.  The result is the calls made and the
\* state_delta of the actions.
execute_callbacks(names, phase, m, reg) ==
    LET IsRegistered(n) == n \in DOMAIN reg
        found == SelectSeq(names, IsRegistered)
    IN  [calls |-> [i \in 1..Len(found) |-> [cb |-> found[i], phase |-> phase, node |-> m]],
         delta |-> MergeAll([i \in 1..Len(found) |-> reg[found[i]].set]),
         raised |-> FALSE]

\* every configured value is written
sync_state_to_session_Overwrite(initial, state) == DictUpdate(state, initial)

\* _sync_state_to_session: ctx.session.state after the loop of lines 48-52
sync_state_to_session(initial, state) ==
    [k \in (DOMAIN state) \cup (DOMAIN initial) |->
        IF k \in DOMAIN state THEN state[k] ELSE initial[k]]

\* the hook sets nothing
execute_hook_Skip(hook, state) == state

\* _execute_hook: ctx.session.state after the loop of lines 59-62 (a missing
\* hook and a hook without set are the empty map)
execute_hook(hook, state) == DictUpdate(state, hook)

\* the control event is yielded whatever the actions hold
control_events_Always(m, delta) == <<Ev(m, "text", <<"">>, {}, delta)>>

\* lines 105-110 and 124-129: the control event of a callback phase
control_events(m, delta) ==
    IF delta # EmptyState THEN <<Ev(m, "text", <<"">>, {}, delta)>> ELSE <<>>

\* what a wrapped node other than a tool node does: the events it yields,
\* and whether it then raises
Stream(evs, raises) == [kind |-> "stream", v |-> None, msg |-> "", events |-> evs, raises |-> raises]

\* the wrapped node, by name
Wrapped == "W"

\* lines 90-91: the initial values are synced
WrapSync ==
    /\ wpc = "begin"
    /\ session' = sync_state_to_session(nodes[Wrapped].initial, session)
    /\ order' = DictOrder(order, session, nodes[Wrapped].initial)
    /\ wpc' = "pre"
    /\ UNCHANGED <<events, executed, calls, invoked>>
    /\ UNCHANGED <<wf, nodes, fIter, fDone, exitAgent, sm, raceVars, registry, lateVars>>
    /\ UNCHANGED <<storeVars, reads, routerVars, runVars, compVars>>

\* lines 94-95: the pre-hook
WrapPre ==
    /\ wpc = "pre"
    /\ session' = execute_hook(nodes[Wrapped].pre_hook, session)
    /\ order' = DictOrder(order, session, nodes[Wrapped].pre_hook)
    /\ wpc' = "start"
    /\ UNCHANGED <<events, executed, calls, invoked>>
    /\ UNCHANGED <<wf, nodes, fIter, fDone, exitAgent, sm, raceVars, registry, lateVars>>
    /\ UNCHANGED <<storeVars, reads, routerVars, runVars, compVars>>

\* lines 98-110: the on_agent_start callbacks and their control event
WrapStart ==
    /\ wpc = "start"
    /\ LET res == execute_callbacks(nodes[Wrapped].callbacks.on_agent_start,
                                    "agent_start", Wrapped, registry)
       IN  /\ calls' = calls \o res.calls
           /\ IF res.raised
              THEN wpc' = "raised" /\ UNCHANGED events
              ELSE wpc' = "inner" /\ events' = events \o control_events(Wrapped, res.delta)
    /\ UNCHANGED <<session, order, executed, invoked>>
    /\ UNCHANGED <<wf, nodes, fIter, fDone, exitAgent, sm, raceVars, registry, lateVars>>
    /\ UNCHANGED <<storeVars, reads, routerVars, runVars, compVars>>

\* lines 113-115 over a tool node (tool_agent.py:86-162): its callbacks
\* around its callable, and its one event with the callbacks' deltas and
\* the output key
WrapTool(o) ==
    /\ wpc = "inner"
    /\ nodes[Wrapped].kind = "tool"
    /\ o \in nodes[Wrapped].behaviours
    /\ LET cfg == nodes[Wrapped]
           start == execute_callbacks(cfg.callbacks.on_tool_start, "tool_start", Wrapped, registry)
           r == tool_result(o)
           finish == execute_callbacks(cfg.callbacks.on_tool_finish, "tool_finish", Wrapped, registry)
           delta == DictUpdate(DictUpdate(start.delta, finish.delta), node_delta(cfg, r.text))
       IN  /\ executed' = Append(executed, Wrapped)
           /\ invoked' = Append(invoked,
                 [node |-> Wrapped, outcome |-> o, seen |-> session, first |-> Len(events) + 1,
                  args |-> resolve_arguments(cfg.arguments, session)])
           /\ IF start.raised
              THEN /\ calls' = calls \o start.calls
                   /\ wpc' = "unwinding"
                   /\ UNCHANGED <<session, order, events>>
              ELSE IF r.raised
              THEN /\ calls' = calls \o start.calls
                   /\ wpc' = "unwinding"
                   /\ UNCHANGED <<session, order, events>>
              ELSE IF finish.raised
              THEN /\ calls' = calls \o start.calls \o finish.calls
                   /\ wpc' = "unwinding"
                   /\ UNCHANGED <<session, order, events>>
              ELSE /\ calls' = calls \o start.calls \o finish.calls
                   /\ session' = DictUpdate(session, node_write(cfg, r.text))
                   /\ order' = DictOrder(order, session, node_write(cfg, r.text))
                   /\ events' = Append(events, Ev(Wrapped, "text", <<r.text>>, {}, delta))
                   /\ wpc' = "finish"
    /\ UNCHANGED <<wf, nodes, fIter, fDone, exitAgent, sm, raceVars, registry, lateVars>>
    /\ UNCHANGED <<storeVars, reads, routerVars, runVars, compVars>>

\* lines 113-115 over another node: each of its events is yielded as it is
WrapStream(o) ==
    /\ wpc = "inner"
    /\ nodes[Wrapped].kind = "stream"
    /\ o \in nodes[Wrapped].behaviours
    /\ executed' = Append(executed, Wrapped)
    /\ invoked' = Append(invoked,
          [node |-> Wrapped, outcome |-> o, seen |-> session, first |-> Len(events) + 1,
           args |-> EmptyState])
    /\ events' = events \o o.events
    /\ wpc' = IF o.raises THEN "unwinding" ELSE "finish"
    /\ UNCHANGED <<session, order, calls>>
    /\ UNCHANGED <<wf, nodes, fIter, fDone, exitAgent, sm, raceVars, registry, lateVars>>
    /\ UNCHANGED <<storeVars, reads, routerVars, runVars, compVars>>

\* the exception of the wrapped node ends with the finally clause
after_finally_Swallows(at) == "post"

\* where control goes after the finally clause of lines 116-129: on to the
\* post-hook, or out with the wrapped node's exception
after_finally(at) == IF at = "finish" THEN "post" ELSE "raised"

\* lines 116-129: the finally clause, with the on_agent_finish callbacks and
\* their control event; an exception of the wrapped node goes on after it
WrapFinish ==
    /\ wpc \in {"finish", "unwinding"}
    /\ LET res == execute_callbacks(nodes[Wrapped].callbacks.on_agent_finish,
                                    "agent_finish", Wrapped, registry)
       IN  /\ calls' = calls \o res.calls
           /\ IF res.raised
              THEN wpc' = "raised" /\ UNCHANGED events
              ELSE /\ wpc' = after_finally(wpc)
                   /\ events' = events \o control_events(Wrapped, res.delta)
    /\ UNCHANGED <<session, order, executed, invoked>>
    /\ UNCHANGED <<wf, nodes, fIter, fDone, exitAgent, sm, raceVars, registry, lateVars>>
    /\ UNCHANGED <<storeVars, reads, routerVars, runVars, compVars>>

\* lines 132-133: the post-hook
WrapPost ==
    /\ wpc = "post"
    /\ session' = execute_hook(nodes[Wrapped].post_hook, session)
    /\ order' = DictOrder(order, session, nodes[Wrapped].post_hook)
    /\ wpc' = "done"
    /\ UNCHANGED <<events, executed, calls, invoked>>
    /\ UNCHANGED <<wf, nodes, fIter, fDone, exitAgent, sm, raceVars, registry, lateVars>>
    /\ UNCHANGED <<storeVars, reads, routerVars, runVars, compVars>>

(***************************************************************************)
(* SpecWrap: one execution of a wrapped node, for each context             *)
(* configuration, session and registry of the sets below and each thing    *)
(* the wrapped node can do.                                                *)
(***************************************************************************)
\* an AgentConfig with a context block, and what the node it declares does
WrappedNode(kind, initial, pre_hook, post_hook, callbacks, behaviours) ==
    [kind |-> kind, arguments |-> IF kind = "tool" THEN QArguments ELSE EmptyState,
     output_key |-> IF kind = "tool" THEN "a_out" ELSE "none",
     initial |-> initial, pre_hook |-> pre_hook, post_hook |-> post_hook,
     callbacks |-> callbacks, behaviours |-> behaviours]

WrapRegistry ==
    [n \in {"cb_raise", "cb_set", "cb_log", "cb_half"} |->
        CASE n = "cb_raise" -> Callback(EmptyState, TRUE)
          [] n = "cb_set" -> Callback([k \in {"metadata"} |-> Str("cb")], FALSE)
          [] n = "cb_log" -> Callback(EmptyState, FALSE)
          [] OTHER -> Callback([k \in {"b_out"} |-> Str("half")], TRUE)]

CallbackLists ==
    {<<>>, <<"cb_raise", "cb_set">>, <<"cb_missing", "cb_log">>, <<"cb_half", "cb_raise">>}

WrapCallbacks ==
    {Callbacks(s, t, t, f) : s \in CallbackLists, f \in CallbackLists,
                             t \in {<<>>, <<"cb_raise", "cb_missing", "cb_set">>}}

WrapInitials ==
    {EmptyState, [k \in {"x"} |-> Str("init")], [k \in {"x", "score"} |-> Str("init")]}

PreHooks == {EmptyState, [k \in {"x", "type"} |-> Str("pre")]}

PostHooks == {EmptyState, [k \in {"a_out", "document"} |-> Str("post")]}

StreamBehaviours ==
    {Stream(<<Ev(Wrapped, "text", <<"one">>, {}, EmptyState),
              Ev(Wrapped, "text", <<"two">>, {}, [k \in {"score"} |-> Num(1)])>>, FALSE),
     Stream(<<Ev(Wrapped, "text", <<"one">>, {}, EmptyState)>>, TRUE),
     Stream(<<>>, FALSE)}

WrappedNodes ==
    {WrappedNode("tool", i, pre, post, c, ToolBehaviours) :
        i \in WrapInitials, pre \in PreHooks, post \in PostHooks, c \in WrapCallbacks}
    \cup {WrappedNode("stream", i, pre, post, c, StreamBehaviours) :
        i \in WrapInitials, pre \in PreHooks, post \in PostHooks,
        c \in {w \in WrapCallbacks : w.on_tool_start = <<>>}}

InitWrap ==
    /\ StoreInit /\ dbOn = FALSE
    /\ RouterIdle /\ RunIdle /\ CompIdle /\ ExitIdle /\ ScopeIdle /\ RaceIdle /\ LateIdle
    /\ \E s \in FlowSessions : session = s.state /\ order = s.order
    /\ events = <<>> /\ executed = <<>>
    /\ wf = [type |-> "sequential", agents |-> <<>>, max_iterations |-> 0]
    /\ \E cfg \in WrappedNodes : nodes = [m \in {Wrapped} |-> cfg]
    /\ fIter = 0 /\ fDone = {} /\ calls = <<>> /\ invoked = <<>>
    /\ wpc = "begin"
    /\ registry = WrapRegistry

NextWrap ==
    \/ WrapSync
    \/ WrapPre
    \/ WrapStart
    \/ \E o \in ToolBehaviours : WrapTool(o)
    \/ \E o \in StreamBehaviours : WrapStream(o)
    \/ WrapFinish
    \/ WrapPost

SpecWrap == InitWrap /\ [][NextWrap]_vars

(***************************************************************************)
(* Properties of SpecWrap                                                  *)
(***************************************************************************)
\* C27: the seeding step writes the configured initial value of a key only
\* when the key is not in the session state; a key that is already there
\* keeps its value, and no other key changes.
C27_SetIfAbsent ==
    [][wpc = "begin" /\ wpc' = "pre" =>
          /\ DOMAIN session' = (DOMAIN session) \cup (DOMAIN nodes[Wrapped].initial)
          /\ \A k \in DOMAIN session : session'[k] = session[k]
          /\ \A k \in (DOMAIN nodes[Wrapped].initial) \ (DOMAIN session) :
                session'[k] = nodes[Wrapped].initial[k]]_vars

\* after seeding, x keeps the value the session had and score is seeded
C27_Witness ==
    /\ wpc = "pre"
    /\ nodes[Wrapped].initial = [k \in {"x", "score"} |-> Str("init")]
    /\ session = [k \in {"x", "score"} |-> IF k = "x" THEN Str("hi") ELSE Str("init")]

\* the events the wrapped node yielded in its execution i
InnerEvents(i) ==
    IF invoked[i].outcome.kind = "stream" THEN invoked[i].outcome.events
    ELSE <<Ev(Wrapped, "text", <<tool_result(invoked[i].outcome).text>>, {},
              DictUpdate(MergeAll([j \in 1..Len(calls) |->
                                     IF calls[j].phase \in {"tool_start", "tool_finish"}
                                     THEN registry[calls[j].cb].set ELSE EmptyState]),
                         node_delta(nodes[Wrapped], tool_result(invoked[i].outcome).text)))>>

\* the wrapped node has returned or raised
InnerOver == wpc \in {"finish", "unwinding", "post", "done", "raised"}

\* C28: the wrapped node starts on a session state that holds the pre-hook's
\* values (and its arguments are resolved against that state); once it is
\* over, its events are in the yielded events unchanged, in their order and
\* next to each other; the post-hook's values are not applied while the
\* wrapped node has not finished, and when the wrapper completes the session
\* state holds them.
C28_HookOrdering ==
    /\ \A i \in 1..Len(invoked) :
          /\ Contains(invoked[i].seen, nodes[Wrapped].pre_hook)
          /\ invoked[i].args = resolve_arguments(nodes[Wrapped].arguments,
                                  DictUpdate(invoked[i].seen, nodes[Wrapped].pre_hook))
          /\ InnerOver =>
                SubSeq(events, invoked[i].first,
                       invoked[i].first + Len(InnerEvents(i)) - 1) = InnerEvents(i)
    /\ wpc \in {"begin", "pre", "start", "inner"} /\ nodes[Wrapped].post_hook # EmptyState =>
          ~Contains(session, nodes[Wrapped].post_hook)
    /\ wpc = "done" =>
          /\ Len(invoked) = 1
          /\ Contains(session, nodes[Wrapped].post_hook)

\* a tool node that saw the pre-hook's x and wrote its output key, which the
\* post-hook then overwrote
C28_Witness ==
    /\ wpc = "done"
    /\ nodes[Wrapped].kind = "tool"
    /\ nodes[Wrapped].pre_hook # EmptyState
    /\ nodes[Wrapped].post_hook # EmptyState
    /\ invoked[1].seen["x"] = Str("pre")
    /\ invoked[1].outcome = Return(Str("ok"))
    /\ \E i \in 1..Len(events) : events[i].delta = [k \in {"a_out"} |-> Str("ok")]
    /\ session["a_out"] = Str("post")

\* a wrapped node that yielded two events, both forwarded in order
C28_WitnessStream ==
    /\ wpc = "done"
    /\ nodes[Wrapped].kind = "stream"
    /\ Len(invoked[1].outcome.events) = 2
    /\ nodes[Wrapped].post_hook # EmptyState

\* the state_delta the callbacks of a phase left in their actions
PhaseDelta(phase) ==
    MergeAll([j \in 1..Len(calls) |->
                IF calls[j].phase = phase THEN registry[calls[j].cb].set ELSE EmptyState])

\* the control event of a phase
ControlEvent(phase) == Ev(Wrapped, "text", <<"">>, {}, PhaseDelta(phase))

\* the keys only callbacks write
CallbackKeys == UNION {DOMAIN registry[n].set : n \in DOMAIN registry}

\* the yielded events before the wrapped node's first event, and those
\* after its last one
Before == SubSeq(events, 1, invoked[1].first - 1)
After == SubSeq(events, invoked[1].first + Len(InnerEvents(1)), Len(events))

C29_WitnessNone ==
    /\ wpc = "done"
    /\ \E j \in 1..Len(calls) : calls[j].phase = "agent_start"
    /\ \E j \in 1..Len(calls) : calls[j].phase = "agent_finish"
    /\ PhaseDelta("agent_start") = EmptyState /\ PhaseDelta("agent_finish") = EmptyState
    /\ Len(events) = Len(InnerEvents(1))

\* the names of a configured list that are registered, in the list's order
RegisteredOf(names) == LET IsRegistered(n) == n \in DOMAIN registry IN SelectSeq(names, IsRegistered)

\* the callbacks called in a phase, in the order of the calls
CalledIn(phase) ==
    LET InPhase(c) == c.phase = phase
        cs == SelectSeq(calls, InPhase)
    IN  [j \in 1..Len(cs) |-> cs[j].cb]

\* the wrapped node raised
InnerRaised == invoked # <<>> /\ invoked[1].outcome.kind = "stream" /\ invoked[1].outcome.raises

\* C30: once a callback phase has run, every registered callback of its
\* configured list has been called, in the list's order, those after a
\* callback that raised included, and no unregistered name has; the wrapped
\* node has then run, a tool node has made its call and yielded its event;
\* and the wrapper ends with an exception only when the wrapped node itself
\* raised.
C30_CallbackIsolation ==
    /\ wpc \notin {"begin", "pre", "start"} =>
          CalledIn("agent_start") = RegisteredOf(nodes[Wrapped].callbacks.on_agent_start)
    /\ wpc \in {"finish", "unwinding", "post", "done", "raised"} =>
          /\ Len(invoked) = 1
          /\ nodes[Wrapped].kind = "tool" =>
                /\ CalledIn("tool_start") = RegisteredOf(nodes[Wrapped].callbacks.on_tool_start)
                /\ CalledIn("tool_finish") = RegisteredOf(nodes[Wrapped].callbacks.on_tool_finish)
                /\ \E i \in 1..Len(events) :
                      events[i].text = <<tool_result(invoked[1].outcome).text>>
    /\ wpc \in {"post", "done", "raised"} =>
          CalledIn("agent_finish") = RegisteredOf(nodes[Wrapped].callbacks.on_agent_finish)
    /\ wpc = "raised" => InnerRaised
    /\ \A j \in 1..Len(calls) : calls[j].cb \in DOMAIN registry

\* a raising callback first in the start, tool and finish lists, an
\* unregistered name in the tool lists: the callbacks after them have been
\* called, the tool has run, and the wrapper has completed
C30_Witness ==
    /\ wpc = "done"
    /\ nodes[Wrapped].kind = "tool"
    /\ nodes[Wrapped].callbacks.on_agent_start = <<"cb_raise", "cb_set">>
    /\ nodes[Wrapped].callbacks.on_tool_start = <<"cb_raise", "cb_missing", "cb_set">>
    /\ nodes[Wrapped].callbacks.on_agent_finish = <<"cb_half", "cb_raise">>
    /\ CalledIn("agent_start") = <<"cb_raise", "cb_set">>
    /\ CalledIn("tool_start") = <<"cb_raise", "cb_set">>
    /\ CalledIn("agent_finish") = <<"cb_half", "cb_raise">>
    /\ invoked[1].outcome = Return(Str("ok"))

(***************************************************************************)
(* SpecLoop: the loop counter agents, LoopInitializationAgent and          *)
(* LoopIncrementAgent, run in any order on one session for a               *)
(* loop_index_key.                                                         *)
(***************************************************************************)
MaxLoopSteps == 4

\* a missing key counts from 0
loop_increment_FromZero(state, key) ==
    IF key \notin DOMAIN state THEN [raised |-> FALSE, v |-> Num(1)]
    ELSE IF state[key].ty \in {"num", "bool"}
    THEN [raised |-> FALSE, v |-> Num(state[key].n + 1)]
    ELSE IF state[key].ty = "float"
    THEN [raised |-> FALSE, v |-> Float(state[key].n + 10)]
    ELSE [raised |-> TRUE, v |-> None]

\* lines 167-168: new_val = ctx.session.state.get(loop_index_key, -1) + 1,
\* a TypeError when the value under the key is not a number
loop_increment(state, key) ==
    IF key \notin DOMAIN state THEN [raised |-> FALSE, v |-> Num(-1 + 1)]
    ELSE IF state[key].ty \in {"num", "bool"}
    THEN [raised |-> FALSE, v |-> Num(state[key].n + 1)]
    ELSE IF state[key].ty = "float"
    THEN [raised |-> FALSE, v |-> Float(state[key].n + 10)]
    ELSE [raised |-> TRUE, v |-> None]

\* LoopInitializationAgent._run_async_impl
LoopInit ==
    /\ loop.err = "none"
    /\ Len(executed) < MaxLoopSteps
    /\ LET delta == [k \in {loop.key} |-> Num(-1)] IN
       /\ session' = DictUpdate(session, delta)
       /\ order' = DictOrder(order, session, delta)
       /\ events' = Append(events, Ev("loop_init", "text", <<"Loop initialized">>, {}, delta))
    /\ executed' = Append(executed, "loop_init")
    /\ UNCHANGED <<loop, branches, raceVars, wrapVars, flowVars, exitAgent, sm>>
    /\ UNCHANGED <<storeVars, reads, routerVars, runVars, compVars>>

\* LoopIncrementAgent._run_async_impl
LoopIncrement ==
    /\ loop.err = "none"
    /\ Len(executed) < MaxLoopSteps
    /\ executed' = Append(executed, "loop_increment")
    /\ LET r == loop_increment(session, loop.key)
           delta == [k \in {loop.key} |-> r.v]
       IN  IF r.raised
           THEN /\ loop' = [loop EXCEPT !.err = "TypeError"]
                /\ UNCHANGED <<session, order, events>>
           ELSE /\ session' = DictUpdate(session, delta)
                /\ order' = DictOrder(order, session, delta)
                /\ events' = Append(events,
                      Ev("loop_increment", "text", <<"Iteration " \o PyStr(r.v)>>, {}, delta))
                /\ UNCHANGED loop
    /\ UNCHANGED <<branches, raceVars, wrapVars, flowVars, exitAgent, sm>>
    /\ UNCHANGED <<storeVars, reads, routerVars, runVars, compVars>>

LoopKeys == {"x", "score"}

LoopSessions ==
    {[present |-> TRUE, state |-> EmptyState, order |-> <<>>],
     [present |-> TRUE, state |-> [k \in {"x"} |-> Num(3)], order |-> <<"x">>],
     [present |-> TRUE, state |-> [k \in {"x"} |-> Str("hi")], order |-> <<"x">>],
     [present |-> TRUE, state |-> [k \in {"x"} |-> Bool(TRUE)], order |-> <<"x">>],
     [present |-> TRUE, state |-> [k \in {"score"} |-> Float(5)], order |-> <<"score">>]}

InitLoop ==
    /\ StoreInit /\ dbOn = FALSE
    /\ RouterIdle /\ CompIdle /\ FlowIdle /\ ExitIdle /\ ScopeIdle /\ RaceIdle /\ WrapIdle
    /\ runPc = "idle" /\ runInit = EmptyState /\ finalResponse = <<>>
    /\ defExit = [emit_full_state |-> FALSE, output_keys |-> <<>>]
    /\ stored \in LoopSessions
    /\ session = stored.state /\ order = stored.order
    /\ events = <<>> /\ executed = <<>>
    /\ \E k \in LoopKeys : loop = [key |-> k, err |-> "none"]
    /\ branches = <<>>

NextLoop == LoopInit \/ LoopIncrement

SpecLoop == InitLoop /\ [][NextLoop]_vars

\* the number of LoopIncrement executions since the last LoopInit (0 when
\* there was no LoopInit)
LastInit ==
    IF \E i \in 1..Len(executed) : executed[i] = "loop_init"
    THEN CHOOSE i \in 1..Len(executed) :
            executed[i] = "loop_init" /\ \A j \in (i + 1)..Len(executed) : executed[j] # "loop_init"
    ELSE 0

\* C31: after a LoopInit followed by n LoopIncrement executions the counter
\* is n-1 (-1 right after the LoopInit); a LoopIncrement on a state without
\* the key leaves 0; every event of the two agents carries the counter's new
\* value as its delta, and each LoopIncrement's value is one more than the
\* value before it.
C31_LoopCounter ==
    /\ LastInit > 0 => /\ loop.err = "none"
                       /\ session[loop.key] = Num((Len(executed) - LastInit) - 1)
    /\ executed = <<"loop_increment">> /\ loop.key \notin DOMAIN stored.state =>
          session[loop.key] = Num(0)
    /\ events # <<>> => events[Len(events)].delta = [k \in {loop.key} |-> session[loop.key]]
    /\ \A i \in 2..Len(events) :
          events[i].author = "loop_increment" /\ events[i - 1].delta[loop.key].ty = "num" =>
             events[i].delta[loop.key] = Num(events[i - 1].delta[loop.key].n + 1)

\* LoopInit and three LoopIncrement executions: the counter is 2
C31_Witness ==
    /\ executed = <<"loop_init", "loop_increment", "loop_increment", "loop_increment">>
    /\ session[loop.key] = Num(2)
    /\ events[4].text = <<"Iteration 2">>

\* a LoopIncrement on a state without the key
C31_WitnessAbsent ==
    /\ executed = <<"loop_increment">>
    /\ stored.state = EmptyState
    /\ session[loop.key] = Num(0)

(***************************************************************************)
(* State changes and event deltas                                          *)
(***************************************************************************)
RECURSIVE Replay(_, _)
\* the state after the state deltas of the events are applied in order
Replay(state, evs) ==
    IF evs = <<>> THEN state ELSE Replay(DictUpdate(state, Head(evs).delta), Tail(evs))

\* C32: at every point of a run over tool, external and a2a nodes, the
\* session state is the state the run started from with the state deltas of
\* the events yielded so far applied in order.
C32_StateOnlyThroughDeltas ==
    runPc # "begin" => session = Replay(stored.state, events)

(***************************************************************************)
(* SpecPar: two tool nodes as the branches of a parallel root, on one      *)
(* session.  A branch runs until it suspends: in the await of a coroutine  *)
(* tool, and at the yield of its event; the other branch runs in between.  *)
(* A node with a context block runs inside its wrapper, whose pre-hook is  *)
(* applied when the branch starts.                                         *)
(***************************************************************************)
\* a callback that sets keys through its callback context; through says
\* whether the callback context also writes what is set into
\* ctx.session.state, which ADK decides
ContextCallback(set, through) == [set |-> set, raises |-> FALSE, through |-> through]

\* what the callbacks of a phase wrote into ctx.session.state
written_through(res, reg) ==
    MergeAll([i \in 1..Len(res.calls) |->
                IF reg[res.calls[i].cb].through THEN reg[res.calls[i].cb].set ELSE EmptyState])

\* the start callbacks' values win
final_actions_StartWins(start, finish, out) == DictUpdate(DictUpdate(out, finish), start)

\* tool_agent.py lines 139-157: state_delta of final_actions
final_actions(start, finish, out) == DictUpdate(DictUpdate(start, finish), out)

\* the arguments are resolved against the session state as it is at the call
resolved_args_Live(arguments, snapshot, live) == resolve_arguments(arguments, live)

\* tool_agent.py lines 92 and 110: resolved_args, from the copy of the
\* session state taken at entry
resolved_args(arguments, snapshot, live) == resolve_arguments(arguments, snapshot)

Branches == {"A", "B"}

IdleBranch ==
    [pc |-> "idle", o |-> Return(None), entry |-> EmptyState, snap |-> EmptyState,
     live |-> EmptyState, args |-> EmptyState, start |-> EmptyState, finish |-> EmptyState,
     wrote |-> {}, saw |-> {}, ev |-> Ev("", "text", <<>>, {}, EmptyState)]

\* the keys a branch's step has written into ctx.session.state so far, for
\* the branches that are suspended in their tool's await
MidStepWrites(b) ==
    UNION {branches[c].wrote : c \in {d \in Branches \ {b} : branches[d].pc = "awaiting"}}

\* lines 123-162 of tool_agent.py: the finish callbacks, the output key and
\* the event, for branch record br on session state sess
ToolFinish(b, br, sess) ==
    LET cfg == nodes[b]
        r == tool_result(br.o)
        fin == execute_callbacks(cfg.callbacks.on_tool_finish, "tool_finish", b, registry)
        through == written_through(fin, registry)
        out == node_write(cfg, r.text)
    IN  [br |-> [br EXCEPT !.pc = "yielded", !.finish = fin.delta,
                           !.wrote = br.wrote \cup DOMAIN through \cup DOMAIN out,
                           !.ev = Ev(b, "text", <<r.text>>, {},
                                     final_actions(br.start, fin.delta, node_delta(cfg, r.text)))],
         session |-> DictUpdate(DictUpdate(sess, through), out),
         calls |-> fin.calls]

\* the branch starts: the wrapper's pre-hook (context_wrapper.py:94-95),
\* then tool_agent.py lines 92-118: the copy of the state, the start
\* callbacks, the arguments, the call
ToolEnter(b, o) ==
    LET cfg == nodes[b]
        hooked == execute_hook(cfg.pre_hook, session)
        start == execute_callbacks(cfg.callbacks.on_tool_start, "tool_start", b, registry)
        through == written_through(start, registry)
        live == DictUpdate(hooked, through)
    IN  [br |-> [branches[b] EXCEPT
                    !.pc = "awaiting", !.o = o, !.entry = session, !.snap = hooked,
                    !.live = live,
                    !.args = resolved_args(cfg.arguments, hooked, live),
                    !.start = start.delta,
                    !.wrote = DOMAIN cfg.pre_hook \cup DOMAIN through,
                    !.saw = {k \in DOMAIN hooked : k \in MidStepWrites(b)}],
         session |-> live,
         calls |-> start.calls]

\* a branch runs from its start to its first suspension
ParEnter(b, o) ==
    /\ branches[b].pc = "idle"
    /\ o \in nodes[b].behaviours
    /\ LET e == ToolEnter(b, o)
           f == ToolFinish(b, e.br, e.session)
       IN  IF nodes[b].is_async
           THEN /\ branches' = [branches EXCEPT ![b] = e.br]
                /\ session' = e.session
                /\ order' = DictOrder(order, session, e.session)
                /\ calls' = calls \o e.calls
           ELSE /\ branches' = [branches EXCEPT ![b] = f.br]
                /\ session' = f.session
                /\ order' = DictOrder(order, session, f.session)
                /\ calls' = calls \o e.calls \o f.calls
    /\ executed' = Append(executed, b)
    /\ UNCHANGED <<events, wf, nodes, fIter, fDone, invoked, exitAgent, sm>>
    /\ UNCHANGED <<loop, raceVars, wrapVars>>
    /\ UNCHANGED <<storeVars, reads, routerVars, runVars, compVars>>

\* the coroutine tool of a branch returns or raises, and the branch runs to
\* the yield of its event
ParResume(b) ==
    /\ branches[b].pc = "awaiting"
    /\ LET f == ToolFinish(b, branches[b], session) IN
       /\ branches' = [branches EXCEPT ![b] = f.br]
       /\ session' = f.session
       /\ order' = DictOrder(order, session, f.session)
       /\ calls' = calls \o f.calls
    /\ UNCHANGED <<events, executed, wf, nodes, fIter, fDone, invoked, exitAgent, sm>>
    /\ UNCHANGED <<loop, raceVars, wrapVars>>
    /\ UNCHANGED <<storeVars, reads, routerVars, runVars, compVars>>

\* the event a branch yielded reaches the caller, and the branch ends
ParYield(b) ==
    /\ branches[b].pc = "yielded"
    /\ events' = Append(events, branches[b].ev)
    /\ branches' = [branches EXCEPT ![b].pc = "done"]
    /\ fDone' = fDone \cup {IF b = "A" THEN 1 ELSE 2}
    /\ UNCHANGED <<session, order, executed, wf, nodes, fIter, calls, invoked, exitAgent, sm>>
    /\ UNCHANGED <<loop, raceVars, wrapVars>>
    /\ UNCHANGED <<storeVars, reads, routerVars, runVars, compVars>>

ParBehaviours == {Return(Str("ok")), Return(None), Raises("boom")}

\* an AgentConfig of type tool, with the pre_hook of its context block
ParNode(output_key, pre_hook, callbacks, is_async) ==
    [kind |-> "tool", arguments |-> QArguments, output_key |-> output_key,
     context |-> pre_hook # EmptyState, pre_hook |-> pre_hook, callbacks |-> callbacks,
     is_async |-> is_async, behaviours |-> ParBehaviours]

ParRegistry(through) ==
    [n \in {"cb_start", "cb_finish", "cb_out"} |->
        CASE n = "cb_start" ->
                ContextCallback([k \in {"x", "metadata"} |-> Str("start")], through)
          [] n = "cb_finish" ->
                ContextCallback([k \in {"metadata", "document"} |-> Str("finish")], through)
          [] OTHER -> ContextCallback([k \in {"a_out"} |-> Str("cb")], through)]

ParCallbacks ==
    {NoCallbacks,
     Callbacks(<<>>, <<"cb_start">>, <<"cb_finish">>, <<>>),
     Callbacks(<<>>, <<"cb_start", "cb_out">>, <<"cb_finish">>, <<>>),
     Callbacks(<<>>, <<"cb_start">>, <<"cb_out", "cb_finish">>, <<>>)}

ParNodesA ==
    {ParNode("a_out", pre, c, a) :
        pre \in {EmptyState, [k \in {"x"} |-> Str("pre")]}, c \in ParCallbacks, a \in BOOLEAN}

ParNodesB ==
    {ParNode(k, EmptyState, NoCallbacks, a) : k \in {"x", "b_out", "none"}, a \in BOOLEAN}

InitPar ==
    /\ StoreInit /\ dbOn = FALSE
    /\ RouterIdle /\ RunIdle /\ CompIdle /\ ExitIdle /\ ScopeIdle /\ RaceIdle
    /\ \E s \in FlowSessions : session = s.state /\ order = s.order
    /\ events = <<>> /\ executed = <<>>
    /\ wf = Workflow("parallel", <<"A", "B">>, 0)
    /\ \E a \in ParNodesA, b \in ParNodesB :
          nodes = [m \in Branches |-> IF m = "A" THEN a ELSE b]
    /\ fIter = 0 /\ fDone = {} /\ calls = <<>> /\ invoked = <<>>
    /\ wpc = "idle"
    /\ \E through \in BOOLEAN : registry = ParRegistry(through)
    /\ loop = [key |-> "none", err |-> "none"]
    /\ branches = [b \in Branches |-> IdleBranch]

NextPar ==
    \/ \E b \in Branches, o \in ParBehaviours : ParEnter(b, o)
    \/ \E b \in Branches : ParResume(b)
    \/ \E b \in Branches : ParYield(b)

SpecPar == InitPar /\ [][NextPar]_vars

(***************************************************************************)
(* Properties of SpecPar                                                   *)
(***************************************************************************)
\* C33: the copy of the session state a branch's node reads at its entry
\* holds no key that the sibling branch's node wrote in a step that was not
\* over then (the sibling was suspended in the await of its tool).
C33_BranchIsolation ==
    \A b \in Branches : branches[b].saw = {}

\* a branch's node has made its call
Called(b) == branches[b].pc # "idle"

\* C34: the arguments a tool node calls its tool with are its configured
\* arguments resolved against the session state as it was when the node was
\* entered; what the node's own on_tool_start callbacks wrote into the
\* session state after that, and what the other branch writes while the
\* call is awaited, is not in them.
C34_SnapshotResolution ==
    \A b \in Branches :
        Called(b) =>
            branches[b].args =
                resolve_arguments(nodes[b].arguments,
                                  execute_hook(nodes[b].pre_hook, branches[b].entry))

\* an on_tool_start callback set x in the session state before the call, the
\* other branch set x again during the call, and the arguments hold the x of
\* the node's entry
C34_Witness ==
    /\ branches["A"].pc = "awaiting"
    /\ branches["A"].entry = [k \in {"x"} |-> Str("hi")]
    /\ branches["A"].live["x"] = Str("start")
    /\ branches["B"].pc = "done"
    /\ session["x"] = Str("ok")
    /\ branches["A"].args["q"] = Text(<<Lit("ask "), Lit("hi")>>)

\* the output-key entry of a branch's event
OutEntry(b) == node_delta(nodes[b], tool_result(branches[b].o).text)

\* C40: the state delta of a tool node's event has the keys of the
\* on_tool_start callbacks' delta, of the on_tool_finish callbacks' delta and
\* the output key; under each key is the output-key entry's value if the key
\* is the output key, else the finish callbacks' value if they set the key,
\* else the start callbacks' value.
C40_DeltaPrecedence ==
    \A b \in Branches :
        branches[b].pc \in {"yielded", "done"} =>
            LET d == branches[b].ev.delta
                start == branches[b].start
                finish == branches[b].finish
                out == OutEntry(b)
            IN  /\ DOMAIN d = (DOMAIN start) \cup (DOMAIN finish) \cup (DOMAIN out)
                /\ \A k \in DOMAIN d :
                      d[k] = IF k \in DOMAIN out THEN out[k]
                             ELSE IF k \in DOMAIN finish THEN finish[k]
                             ELSE start[k]

\* start and finish callbacks both set metadata, a start callback set the
\* output key: the event has the finish value and the tool's result
C40_Witness ==
    /\ branches["A"].pc = "done"
    /\ nodes["A"].callbacks.on_tool_start = <<"cb_start", "cb_out">>
    /\ nodes["A"].callbacks.on_tool_finish = <<"cb_finish">>
    /\ branches["A"].start["a_out"] = Str("cb")
    /\ branches["A"].start["metadata"] = Str("start")
    /\ \E i \in 1..Len(events) :
          /\ events[i].author = "A"
          /\ events[i].delta["metadata"] = Str("finish")
          /\ events[i].delta["a_out"] = Str("ok")
          /\ events[i].delta["x"] = Str("start")

\* a finish callback set the output key: the event has the tool's result
C40_WitnessFinish ==
    /\ branches["A"].pc = "done"
    /\ "a_out" \in DOMAIN branches["A"].finish
    /\ branches["A"].finish["a_out"] = Str("cb")
    /\ branches["A"].ev.delta["a_out"] = Str("ok")

(***************************************************************************)
(* Node names                                                              *)
(***************************************************************************)
\* two declarations of the definition have the same name
DuplicateNames ==
    \E i, j \in 1..Len(cAgents) : i # j /\ cAgents[i].name = cAgents[j].name

\* C35: a definition that declares two nodes with the same name is rejected:
\* its build does not complete.
C35_NamesUnique == DuplicateNames => cpc # "done"

(***************************************************************************)
(* SpecUsers: the session store called by two users for one session id,    *)
(* with or without a durable store; no key expires.                        *)
(***************************************************************************)
Callers2 == {"u1", "u2"}

InitUsers == StoreInit /\ dbOn \in BOOLEAN /\ OthersIdle

NextUsers ==
    \/ \E u \in Callers2 : get_session(u, "s1") /\ UNCHANGED reads
    \/ \E u \in Callers2 : create_session(u, "s1")
    \/ \E u \in Callers2, d \in Deltas : append_event("id", "s1", u, Event(d), EmptyState)
    \/ \E u \in Callers2, d \in Deltas :
          \E st \in SessionObjects("s1", d) : append_event("session", "s1", u, Event(d), st)

SpecUsers == InitUsers /\ [][NextUsers]_vars

\* C36: a get_session that finds the session id's snapshot in the cache
\* returns a session with the cached state, whatever user the snapshot was
\* saved for and whatever user asks.
C36_KeyedByIdOnly ==
    ret.op = "get" /\ ret.cached =>
        /\ ret.kind = "session"
        /\ ret.src = "cache"
        /\ ret.state = redis[ret.sid].state

\* the session u1 created, with the state appended to it, returned to u2
C36_Witness ==
    /\ ret.op = "get"
    /\ ret.cached
    /\ ret.user = "u2"
    /\ redis["s1"].user = "u1"
    /\ ret.state = [k \in {"k1"} |-> "v1"]

\* C37: after a create_session the session id's snapshot in the cache is
\* an empty state saved for the creating user with a full TTL, also when the
\* id had a snapshot before the call.
C37_CreateOverwrites ==
    ret.op = "create" =>
        /\ redis[ret.sid].kind = "json"
        /\ redis[ret.sid].state = EmptyState
        /\ redis[ret.sid].user = ret.user
        /\ redis[ret.sid].exp = now + TTL

\* a second create on a session that an append had given state since the
\* first create (the durable store still has that state): the cached state
\* is empty
C37_Witness ==
    /\ ret.op = "create"
    /\ ret.cached
    /\ dbOn
    /\ db["s1"].state = [k \in {"k1"} |-> "v1"]
    /\ redis["s1"].state = EmptyState

\* the last call was an append_event by session id that found no state key
AppendedByIdUncached == ret.op = "append" /\ ret.src = "id" /\ ~ret.cached

\* C38: after an append_event by session id that found no state key in the
\* cache, the state key is still absent, whatever the event's state delta,
\* and the event is the last one of the session's history key.
C38_AppendNeverCreates ==
    AppendedByIdUncached =>
        /\ ClientGet(ret.sid).kind = "none"
        /\ history[ret.sid].events # <<>>
        /\ history[ret.sid].exp = now + TTL
        /\ history[ret.sid].events[Len(history[ret.sid].events)] = appended[Len(appended)].ev
        /\ appended[Len(appended)].ev.delta = ret.delta

\* an event with a state delta appended to a session whose snapshot has
\* expired: a history key without a state key
C38_Witness ==
    /\ AppendedByIdUncached
    /\ now > 0
    /\ ret.delta = [k \in {"k1"} |-> "v1"]
    /\ redis[ret.sid] = NoKey
    /\ Len(history[ret.sid].events) = 1

(***************************************************************************)
(* The wrapper when the wrapped node raises                                *)
(***************************************************************************)
\* some value of the post-hook is in the session state
PostHookApplied ==
    \E k \in DOMAIN nodes[Wrapped].post_hook :
        k \in DOMAIN session /\ session[k] = nodes[Wrapped].post_hook[k]

\* C39: when the wrapper has ended, the on_agent_finish callbacks have run,
\* whether the wrapped node returned or raised; when it has ended because
\* the wrapped node raised, the session state holds the pre-hook's values
\* and none of the post-hook's values; when it has ended normally the
\* post-hook's values are in the session state.
C39_RaisingNode ==
    /\ wpc \in {"done", "raised"} =>
          CalledIn("agent_finish") = RegisteredOf(nodes[Wrapped].callbacks.on_agent_finish)
    /\ wpc = "raised" =>
          /\ InnerRaised
          /\ Contains(session, nodes[Wrapped].pre_hook)
          /\ ~PostHookApplied
    /\ wpc = "done" => ~InnerRaised /\ Contains(session, nodes[Wrapped].post_hook)

\* the wrapped node yielded an event and raised; the finish callbacks ran
\* and left their control event; pre-hook values and no post-hook values
C39_Witness ==
    /\ wpc = "raised"
    /\ nodes[Wrapped].pre_hook # EmptyState
    /\ nodes[Wrapped].post_hook # EmptyState
    /\ nodes[Wrapped].callbacks.on_agent_finish = <<"cb_half", "cb_raise">>
    /\ CalledIn("agent_finish") = <<"cb_half", "cb_raise">>
    /\ events[Len(events)].delta = [k \in {"b_out"} |-> Str("half")]
    /\ session["x"] = Str("pre")
    /\ "document" \notin DOMAIN session

====
